---- MODULE Spec2Model ----
(***************************************************************************)
(* State-machine model of ServerEntry (tendisplus/server/server_entry.cpp): *)
(* startup, the session registry and monitor list, processRequest, the     *)
(* store lifecycle operations, the cron loop and the shutdown protocol.    *)
(***************************************************************************)
EXTENDS Integers, Sequences, FiniteSets, TLC

\* ------------------------------------------------------------------ bounds
MaxStores == 2
MaxSessions == 2
MaxRestarts == 1
MaxStopCalls == 1
MaxCronLoop == 2
MaxRequests == 2
MaxRacingRequests == 1
MaxStoreOps == 2
MaxMetricTicks == 19
MaxUnsteadyTicks == 2
MaxOpsPerTick == 2
MaxPushes == 3
MaxFtmcTicks == 21
MaxFtmcCommands == 2
MaxStatResets == 1
MaxStatCount == 2
MaxStatTicks == 3

\* ------------------------------------------------------- program constants
STATS_METRIC_SAMPLES == 16
MinExecutorThreads == 4
CronIntervalMs == 100
CronHz == 10
UintMod == 2 ^ 16    \* unsigned counters wrap at this width in the model

StoreIds == 0 .. (MaxStores - 1)
SessIds == 1 .. MaxSessions
StoreModes == {"READ_WRITE", "REPLICATE_ONLY", "STORE_NONE"}
SettableModes == {"READ_WRITE", "REPLICATE_ONLY"}
StopThreads == {"waiter", "ext"}
Metrics == {"COMMAND", "NET_INPUT", "NET_OUTPUT"}
CmdNames == {"fullsync", "incrsync", "quit", "other"}
PushThreads == {"w1", "w2"}

VARIABLES
    \* process and disk
    crashed,        \* the process was aborted (LOG(FATAL), INVARIANT, fault)
    catalogMeta,    \* persisted StoreMainMeta: store id -> mode or "ABSENT"
    storeData,      \* persisted: store id -> TRUE when the shard holds keys
    restarts,
    cfg,            \* ServerParams: kvStoreCount, noexpire
    \* ServerEntry fields
    isRunning, isStopped, isShutdowned,
    catalog,        \* _catalog: state and its kvStoreCount
    kvstores,       \* _kvstores: sequence of shard objects
    segmentMgr, pessimisticMgr, mgLockMgr,
    executorList, network, replMgr, indexMgr, cronThd, slowLog,
    sessions, monitors, sess,
    serverStat, instMetric, matrix, slowlogId,
    ftmcEnabled,
    \* threads
    startPc, startI, startRet, startFail, threadnum, tmpStores,
    stopPc, stopCalls, teardown,
    waitPc,
    req, nreq,
    sop, nsop, expectMode,
    cronLoop, oldMatrix, ftmcLog, now,
    secMatrix,      \* history: the live matrices at the last 1 s pass of cron
    \* slow log
    slowLogFile,    \* the ids of the records in the slow-log file, in order
    push, npush,    \* calls of slowlogPushEntryIfNeeded in progress
    statReset       \* the call of resetServerStat in progress, and their number

procVars == <<crashed, catalogMeta, storeData, restarts, cfg>>
flagVars == <<isRunning, isStopped, isShutdowned>>
subsysVars == <<segmentMgr, pessimisticMgr, mgLockMgr, executorList, network,
                replMgr, indexMgr>>
storeVars == <<catalog, kvstores>>
sessVars == <<sessions, monitors, sess>>
statVars == <<serverStat, instMetric, matrix, slowlogId, ftmcEnabled>>
startVars == <<startPc, startI, startRet, startFail, threadnum, tmpStores>>
stopVars == <<stopPc, stopCalls, teardown>>
reqVars == <<req, nreq>>
sopVars == <<sop, nsop, expectMode>>
cronVars == <<cronLoop, oldMatrix, ftmcLog, now, secMatrix>>
slowVars == <<slowLogFile, push, npush>>

vars == <<procVars, flagVars, subsysVars, storeVars, sessVars, statVars,
          startVars, stopVars, waitPc, reqVars, sopVars, cronVars, cronThd,
          slowLog, slowVars, statReset>>

\* ------------------------------------------------------------- helpers
Max(a, b) == IF a >= b THEN a ELSE b

Range(s) == {s[i] : i \in 1 .. Len(s)}

RECURSIVE SumSeq(_)
SumSeq(s) == IF s = <<>> THEN 0 ELSE Head(s) + SumSeq(Tail(s))

MutexFreeMut ==
    /\ startPc \in {"idle", "done"}
    /\ \A t \in PushThreads : push[t].pc = "idle"

\* _mutex is held by startup() from entry to return, by a call of
\* slowlogPushEntryIfNeeded that writes and by resetServerStat; every other
\* holder is a single atomic step of the model.
MutexFree ==
    /\ startPc \in {"idle", "done"}
    /\ \A t \in PushThreads : push[t].pc = "idle"
    /\ statReset.pc = "idle"

ZeroMetric ==
    [samples |-> [j \in 0 .. (STATS_METRIC_SAMPLES - 1) |-> 0],
     idx |-> 0, lastSampleTime |-> 0, lastSampleCount |-> 0]

ZeroStat ==
    [syncFull |-> 0, syncPartialOk |-> 0, syncPartialErr |-> 0,
     netInputBytes |-> 0, netOutputBytes |-> 0]

ZeroMatrix == [net |-> 0, pool |-> 0, req |-> 0]

NewSess ==
    [started |-> FALSE, cancelled |-> FALSE, isMonitor |-> FALSE,
     resp |-> <<>>, conn |-> "session", closeAfterRsp |-> FALSE,
     addRet |-> "none", endRet |-> "none"]

IdleReq == [pc |-> "idle", n |-> 0, cmd |-> "other", ret |-> "none",
            sawRunning |-> FALSE,
            precheckOk |-> FALSE, respSet |-> FALSE, ran |-> FALSE,
            fanned |-> FALSE, regOk |-> "none"]

IdleSop == [kind |-> "none", pc |-> "idle", store |-> 0, force |-> FALSE,
            mode |-> "READ_WRITE", ret |-> "none", locked |-> FALSE]

Configs == [kvStoreCount : 1 .. MaxStores, noexpire : BOOLEAN]

\* Values of cfg->executorThreadNum and of hardware_concurrency().
ExecutorThreadNums == {0, 4}
CpuNums == {0, 2, 8}

\* ServerEntry::ServerEntry(): the in-memory state of a fresh object.
ServerEntryCtor ==
    /\ isRunning = FALSE
    /\ isStopped = TRUE
    /\ isShutdowned = FALSE
    /\ catalog = [state |-> "null", kvStoreCount |-> 0, stops |-> 0]
    /\ kvstores = <<>>
    /\ segmentMgr = "null"
    /\ pessimisticMgr = "null"
    /\ mgLockMgr = "null"
    /\ executorList = <<>>
    /\ network = "null"
    /\ replMgr = "null"
    /\ indexMgr = "null"
    /\ cronThd = "null"
    /\ slowLog = "closed"
    /\ sessions = {}
    /\ monitors = <<>>
    /\ sess = [s \in SessIds |-> NewSess]
    /\ serverStat = ZeroStat
    /\ instMetric = [m \in Metrics |-> ZeroMetric]
    /\ matrix = ZeroMatrix
    /\ slowlogId = 0
    /\ ftmcEnabled = FALSE
    /\ startPc = "idle"
    /\ startI = 0
    /\ startRet = "none"
    /\ startFail = "none"
    /\ threadnum = 0
    /\ tmpStores = <<>>
    /\ stopPc = [t \in StopThreads |-> "idle"]
    /\ stopCalls = [t \in StopThreads |-> 0]
    /\ teardown = [k \in {"network", "executors", "repl", "index", "clear",
                          "catalog", "stores", "join", "slowlog", "stopped"}
                     |-> 0]
    /\ waitPc = "idle"
    /\ req = [s \in SessIds |-> IdleReq]
    /\ nreq = 0
    /\ sop = IdleSop
    /\ nsop = 0
    /\ cronLoop = 0
    /\ oldMatrix = ZeroMatrix
    /\ secMatrix = ZeroMatrix
    /\ ftmcLog = <<>>
    /\ push = [t \in PushThreads |-> [pc |-> "idle", id |-> 0]]

Init ==
    /\ crashed = FALSE
    /\ catalogMeta = [i \in StoreIds |-> "ABSENT"]
    /\ storeData = [i \in StoreIds |-> FALSE]
    /\ restarts = 0
    /\ cfg \in Configs
    /\ expectMode = [i \in StoreIds |-> "none"]
    /\ now = 1000
    /\ slowLogFile = <<>>
    /\ npush = 0
    /\ statReset = [pc |-> "idle", n |-> 0]
    /\ ServerEntryCtor

\* ---------------------------------------------------------------- startup
Alive == ~crashed

NewStore(m) ==
    [mode |-> m, ctorMode |-> m, paused |-> FALSE, state |-> "open",
     stops |-> 0, replStopped |-> FALSE, indexStopped |-> FALSE]

\* Catalog::getKVStoreCount(), as ServerEntry::getKVStoreCount() returns it.
getKVStoreCount == catalog.kvStoreCount

AdoptedModeMut(meta) == "READ_WRITE"

\* The mode a shard is constructed with, from the result of
\* getStoreMainMeta(i): the stored mode, READ_WRITE when the record is absent.
AdoptedMode(meta) == IF meta \in StoreModes THEN meta ELSE "READ_WRITE"

StartupReturnMut(step, st) ==
    /\ startPc' = "done"
    /\ startRet' = "OK"
    /\ startFail' = step

\* startup() returns the failure st of step `step`; the lock_guard is released.
StartupReturn(step, st) ==
    /\ startPc' = "done"
    /\ startRet' = st
    /\ startFail' = step

\* LOG(FATAL) aborts the process: the return that follows it is never reached.
StartupFatal(step) ==
    /\ crashed' = TRUE
    /\ startFail' = step
    /\ UNCHANGED <<startPc, startRet>>

\* Lines 195-214: take _mutex, publish the command configuration, construct
\* and install the catalog. The embedding program does not call startup()
\* while a call of stop() is in progress.
StartupBegin ==
    /\ Alive
    /\ startPc = "idle"
    /\ \A t \in StopThreads : stopPc[t] \in {"idle", "done"}
    /\ startPc' = "stores"
    /\ startI' = 0
    /\ tmpStores' = <<>>
    /\ catalog' = [state |-> "open", kvStoreCount |-> cfg.kvStoreCount,
                 stops |-> 0]
    /\ UNCHANGED <<procVars, flagVars, subsysVars, kvstores, sessVars,
                   statVars, startRet, startFail, threadnum, stopVars, waitPc,
                   reqVars, sopVars, cronVars, cronThd, slowLog, slowVars, statReset>>

\* Lines 221-245: one iteration of the kvstore init loop.
StartupStoreInit ==
    /\ Alive
    /\ startPc = "stores"
    /\ startI < cfg.kvStoreCount
    /\ \E readOk \in BOOLEAN, writeOk \in BOOLEAN :
         IF ~readOk
         THEN \* getStoreMainMeta failed with something else than NOTFOUND
              /\ StartupFatal("getmeta")
              /\ UNCHANGED <<catalogMeta, startI, tmpStores>>
         ELSE IF catalogMeta[startI] = "ABSENT" /\ ~writeOk
         THEN /\ StartupFatal("setmeta")
              /\ UNCHANGED <<catalogMeta, startI, tmpStores>>
         ELSE /\ catalogMeta' =
                   IF catalogMeta[startI] = "ABSENT"
                   THEN [catalogMeta EXCEPT ![startI] = "READ_WRITE"]
                   ELSE catalogMeta
              /\ tmpStores' =
                   Append(tmpStores, NewStore(AdoptedMode(catalogMeta[startI])))
              /\ startI' = startI + 1
              /\ UNCHANGED <<crashed, startPc, startRet, startFail>>
    /\ UNCHANGED <<storeData, restarts, cfg, flagVars, subsysVars, storeVars,
                   sessVars, statVars, threadnum, stopVars, waitPc, reqVars,
                   sopVars, cronVars, cronThd, slowLog, slowVars, statReset>>

\* Lines 265-279: install the shard array (INVARIANT_D on the count), the
\* segment router and the two lock managers.
StartupInstall ==
    /\ Alive
    /\ startPc = "stores"
    /\ startI = cfg.kvStoreCount
    /\ kvstores' = tmpStores
    /\ crashed' = (getKVStoreCount # cfg.kvStoreCount)
    /\ segmentMgr' = "set"
    /\ pessimisticMgr' = "set"
    /\ mgLockMgr' = "set"
    /\ startPc' = "cpunum"
    /\ UNCHANGED <<catalogMeta, storeData, restarts, cfg, flagVars,
                   executorList, network, replMgr, indexMgr, catalog,
                   sessVars, statVars, startI, startRet, startFail, threadnum,
                   tmpStores, stopVars, waitPc, reqVars, sopVars, cronVars,
                   cronThd, slowLog, slowVars, statReset>>

\* Lines 282-292: hardware_concurrency() and the executor thread number.
StartupCpuNum ==
    /\ Alive
    /\ startPc = "cpunum"
    /\ \E cpuNum \in CpuNums, executorThreadNum \in ExecutorThreadNums :
         IF cpuNum = 0
         THEN /\ StartupReturn("cpunum", "ERR_INTERNAL")
              /\ UNCHANGED <<threadnum, startI>>
         ELSE /\ threadnum' = IF executorThreadNum # 0
                              THEN executorThreadNum
                              ELSE Max(MinExecutorThreads, cpuNum \div 2)
              /\ startI' = 0
              /\ startPc' = "executors"
              /\ UNCHANGED <<startRet, startFail>>
    /\ UNCHANGED <<procVars, flagVars, subsysVars, storeVars, sessVars,
                   statVars, tmpStores, stopVars, waitPc, reqVars, sopVars,
                   cronVars, cronThd, slowLog, slowVars, statReset>>

\* Lines 293-301: one iteration of the worker pool loop.
StartupExecutor ==
    /\ Alive
    /\ startPc = "executors"
    /\ startI < threadnum
    /\ \E ok \in BOOLEAN :
         IF ok
         THEN /\ executorList' = Append(executorList, "started")
              /\ startI' = startI + 1
              /\ UNCHANGED <<startPc, startRet, startFail>>
         ELSE /\ StartupReturn("executor", "ERR_EXECUTOR")
              /\ UNCHANGED <<executorList, startI>>
    /\ UNCHANGED <<procVars, flagVars, segmentMgr, pessimisticMgr, mgLockMgr,
                   network, replMgr, indexMgr, storeVars, sessVars, statVars,
                   threadnum, tmpStores, stopVars, waitPc, reqVars, sopVars,
                   cronVars, cronThd, slowLog, slowVars, statReset>>

StartupNetworkMut ==
    /\ Alive
    /\ startPc = "executors"
    /\ startI = threadnum
    /\ \E ok \in BOOLEAN :
         IF ok
         THEN /\ network' = "running"
              /\ startPc' = "repl"
              /\ UNCHANGED <<startRet, startFail>>
         ELSE /\ network' = "created"
              /\ StartupReturn("prepare", "ERR_PREPARE")
    /\ UNCHANGED <<procVars, flagVars, segmentMgr, pessimisticMgr, mgLockMgr,
                   executorList, replMgr, indexMgr, storeVars, sessVars,
                   statVars, startI, threadnum, tmpStores, stopVars, waitPc,
                   reqVars, sopVars, cronVars, cronThd, slowLog, slowVars, statReset>>

\* Lines 303-313: construct the network and prepare it.
StartupNetwork ==
    /\ Alive
    /\ startPc = "executors"
    /\ startI = threadnum
    /\ \E ok \in BOOLEAN :
         IF ok
         THEN /\ network' = "prepared"
              /\ startPc' = "repl"
              /\ UNCHANGED <<startRet, startFail>>
         ELSE /\ network' = "created"
              /\ StartupReturn("prepare", "ERR_PREPARE")
    /\ UNCHANGED <<procVars, flagVars, segmentMgr, pessimisticMgr, mgLockMgr,
                   executorList, replMgr, indexMgr, storeVars, sessVars,
                   statVars, startI, threadnum, tmpStores, stopVars, waitPc,
                   reqVars, sopVars, cronVars, cronThd, slowLog, slowVars, statReset>>

\* Lines 315-323: construct and start the replication manager.
StartupRepl ==
    /\ Alive
    /\ startPc = "repl"
    /\ \E ok \in BOOLEAN :
         IF ok
         THEN /\ replMgr' = "started"
              /\ startPc' = "index"
              /\ UNCHANGED <<startRet, startFail>>
         ELSE /\ replMgr' = "created"
              /\ StartupReturn("repl", "ERR_REPL")
    /\ UNCHANGED <<procVars, flagVars, segmentMgr, pessimisticMgr, mgLockMgr,
                   executorList, network, indexMgr, storeVars, sessVars,
                   statVars, startI, threadnum, tmpStores, stopVars, waitPc,
                   reqVars, sopVars, cronVars, cronThd, slowLog, slowVars, statReset>>

\* Lines 325-332: the index manager, unless cfg->noexpire.
StartupIndex ==
    /\ Alive
    /\ startPc = "index"
    /\ \E ok \in BOOLEAN :
         IF cfg.noexpire
         THEN /\ startPc' = "run"
              /\ UNCHANGED <<indexMgr, startRet, startFail>>
         ELSE IF ok
         THEN /\ indexMgr' = "started"
              /\ startPc' = "run"
              /\ UNCHANGED <<startRet, startFail>>
         ELSE /\ indexMgr' = "created"
              /\ StartupReturn("index", "ERR_INDEX")
    /\ UNCHANGED <<procVars, flagVars, segmentMgr, pessimisticMgr, mgLockMgr,
                   executorList, network, replMgr, storeVars, sessVars,
                   statVars, startI, threadnum, tmpStores, stopVars, waitPc,
                   reqVars, sopVars, cronVars, cronThd, slowLog, slowVars, statReset>>

\* Lines 334-342: the listener is the last one to run.
StartupRun ==
    /\ Alive
    /\ startPc = "run"
    /\ \E ok \in BOOLEAN :
         IF ok
         THEN /\ network' = "running"
              /\ startPc' = "setrunning"
              /\ UNCHANGED <<startRet, startFail>>
         ELSE /\ UNCHANGED network
              /\ StartupReturn("run", "ERR_RUN")
    /\ UNCHANGED <<procVars, flagVars, segmentMgr, pessimisticMgr, mgLockMgr,
                   executorList, replMgr, indexMgr, storeVars, sessVars,
                   statVars, startI, threadnum, tmpStores, stopVars, waitPc,
                   reqVars, sopVars, cronVars, cronThd, slowLog, slowVars, statReset>>

\* Line 344: _isRunning.store(true).
StartupSetRunning ==
    /\ Alive
    /\ startPc = "setrunning"
    /\ isRunning' = TRUE
    /\ startPc' = "setstopped"
    /\ UNCHANGED <<procVars, isStopped, isShutdowned, subsysVars, storeVars,
                   sessVars, statVars, startI, startRet, startFail, threadnum,
                   tmpStores, stopVars, waitPc, reqVars, sopVars, cronVars,
                   cronThd, slowLog, slowVars, statReset>>

\* Line 345: _isStopped.store(false).
StartupSetNotStopped ==
    /\ Alive
    /\ startPc = "setstopped"
    /\ isStopped' = FALSE
    /\ startPc' = "cron"
    /\ UNCHANGED <<procVars, isRunning, isShutdowned, subsysVars, storeVars,
                   sessVars, statVars, startI, startRet, startFail, threadnum,
                   tmpStores, stopVars, waitPc, reqVars, sopVars, cronVars,
                   cronThd, slowLog, slowVars, statReset>>

\* Lines 347-350: spawn the cron thread; serverCron() copies the matrices
\* before its loop.
StartupSpawnCron ==
    /\ Alive
    /\ startPc = "cron"
    /\ cronThd' = "running"
    /\ oldMatrix' = matrix
    /\ secMatrix' = matrix
    /\ cronLoop' = 0
    /\ startPc' = "slowlog"
    /\ UNCHANGED <<procVars, flagVars, subsysVars, storeVars, sessVars,
                   statVars, startI, startRet, startFail, threadnum, tmpStores,
                   stopVars, waitPc, reqVars, sopVars, ftmcLog, now, slowLog, slowVars, statReset>>

\* ServerEntry::initSlowlog: open the file in append mode.
initSlowlog(ok) == IF ok THEN "open" ELSE "closed"

\* Lines 352-355: initSlowlog (its Status is dropped) and return OK.
StartupFinish ==
    /\ Alive
    /\ startPc = "slowlog"
    /\ \E ok \in BOOLEAN : slowLog' = initSlowlog(ok)
    /\ startPc' = "done"
    /\ startRet' = "OK"
    /\ UNCHANGED <<procVars, flagVars, subsysVars, storeVars, sessVars,
                   statVars, startI, startFail, threadnum, tmpStores, stopVars,
                   waitPc, reqVars, sopVars, cronVars, cronThd, slowVars, statReset>>


\* --------------------------------------------------------------- shutdown
\* ServerEntry::handleShutdownCmd.
handleShutdownCmd ==
    /\ Alive
    /\ ~isShutdowned
    /\ startRet = "OK"
    /\ "started" \in Range(executorList)
    /\ isShutdowned' = TRUE
    /\ UNCHANGED <<procVars, isRunning, isStopped, subsysVars, storeVars,
                   sessVars, statVars, startVars, stopVars, waitPc, reqVars,
                   sopVars, cronVars, cronThd, slowLog, slowVars, statReset>>

StopGoto(t, pc) == stopPc' = [stopPc EXCEPT ![t] = pc]

Did(k) == teardown' = [teardown EXCEPT ![k] = @ + 1]

\* A call of stop() by a thread other than the waitStopComplete waiter.
\* Callers do not invoke stop() while startup() is in progress.
StopCall(t) ==
    /\ Alive
    /\ t # "waiter"
    /\ startPc \in {"idle", "done"}
    /\ stopPc[t] \in {"idle", "done"}
    /\ stopCalls[t] < MaxStopCalls
    /\ stopCalls' = [stopCalls EXCEPT ![t] = @ + 1]
    /\ StopGoto(t, "check")
    /\ UNCHANGED <<procVars, flagVars, subsysVars, storeVars, sessVars,
                   statVars, startVars, teardown, waitPc, reqVars, sopVars,
                   cronVars, cronThd, slowLog, slowVars, statReset>>

\* Lines 922-925: the load of _isRunning and the early return.
StopCheck(t) ==
    /\ Alive
    /\ stopPc[t] = "check"
    /\ StopGoto(t, IF isRunning THEN "setflag" ELSE "done")
    /\ waitPc' = IF t = "waiter" /\ ~isRunning THEN "returned" ELSE waitPc
    /\ UNCHANGED <<procVars, flagVars, subsysVars, storeVars, sessVars,
                   statVars, startVars, stopCalls, teardown, reqVars, sopVars,
                   cronVars, cronThd, slowLog, slowVars, statReset>>

StopSetFlagMut(t) ==
    /\ Alive
    /\ stopPc[t] = "setflag"
    /\ isRunning' = FALSE
    /\ StopGoto(t, "executors")
    /\ UNCHANGED <<procVars, isStopped, isShutdowned, subsysVars, storeVars,
                   sessVars, statVars, startVars, stopCalls, teardown, waitPc,
                   reqVars, sopVars, cronVars, cronThd, slowLog, slowVars, statReset>>

\* Lines 927-928: _isRunning.store(false) and notify_all.
StopSetFlag(t) ==
    /\ Alive
    /\ stopPc[t] = "setflag"
    /\ isRunning' = FALSE
    /\ StopGoto(t, "network")
    /\ UNCHANGED <<procVars, isStopped, isShutdowned, subsysVars, storeVars,
                   sessVars, statVars, startVars, stopCalls, teardown, waitPc,
                   reqVars, sopVars, cronVars, cronThd, slowLog, slowVars, statReset>>

\* Line 929: _network->stop(). A call through a null handle is undefined:
\* the process faults or the call passes as a no-op.
StopNetwork(t) ==
    /\ Alive
    /\ stopPc[t] = "network"
    /\ \E fault \in BOOLEAN :
         IF network = "null" /\ fault
         THEN /\ crashed' = TRUE
              /\ UNCHANGED <<network, stopPc, teardown>>
         ELSE /\ network' = IF network = "null" THEN "null" ELSE "stopped"
              /\ Did("network")
              /\ StopGoto(t, "executors")
              /\ UNCHANGED crashed
    /\ UNCHANGED <<catalogMeta, storeData, restarts, cfg, flagVars, segmentMgr,
                   pessimisticMgr, mgLockMgr, executorList, replMgr, indexMgr,
                   storeVars, sessVars, statVars, startVars, stopCalls, waitPc,
                   reqVars, sopVars, cronVars, cronThd, slowLog, slowVars, statReset>>

\* Lines 930-932: executor->stop() for every element of _executorList.
StopExecutors(t) ==
    /\ Alive
    /\ stopPc[t] = "executors"
    /\ \E fault \in BOOLEAN :
         IF "null" \in Range(executorList) /\ fault
         THEN /\ crashed' = TRUE
              /\ UNCHANGED <<executorList, stopPc, teardown>>
         ELSE /\ executorList' =
                   [i \in 1 .. Len(executorList) |->
                      IF executorList[i] = "null" THEN "null" ELSE "stopped"]
              /\ Did("executors")
              /\ StopGoto(t, "repl")
              /\ UNCHANGED crashed
    /\ UNCHANGED <<catalogMeta, storeData, restarts, cfg, flagVars, segmentMgr,
                   pessimisticMgr, mgLockMgr, network, replMgr, indexMgr,
                   storeVars, sessVars, statVars, startVars, stopCalls, waitPc,
                   reqVars, sopVars, cronVars, cronThd, slowLog, slowVars, statReset>>

\* Line 933: _replMgr->stop().
StopRepl(t) ==
    /\ Alive
    /\ stopPc[t] = "repl"
    /\ \E fault \in BOOLEAN :
         IF replMgr = "null" /\ fault
         THEN /\ crashed' = TRUE
              /\ UNCHANGED <<replMgr, stopPc, teardown>>
         ELSE /\ replMgr' = IF replMgr = "null" THEN "null" ELSE "stopped"
              /\ Did("repl")
              /\ StopGoto(t, "index")
              /\ UNCHANGED crashed
    /\ UNCHANGED <<catalogMeta, storeData, restarts, cfg, flagVars, segmentMgr,
                   pessimisticMgr, mgLockMgr, executorList, network, indexMgr,
                   storeVars, sessVars, statVars, startVars, stopCalls, waitPc,
                   reqVars, sopVars, cronVars, cronThd, slowLog, slowVars, statReset>>

\* Line 934: _indexMgr->stop(), called whether or not an index manager was
\* installed.
StopIndex(t) ==
    /\ Alive
    /\ stopPc[t] = "index"
    /\ \E fault \in BOOLEAN :
         IF indexMgr = "null" /\ fault
         THEN /\ crashed' = TRUE
              /\ UNCHANGED <<indexMgr, stopPc, teardown>>
         ELSE /\ indexMgr' = IF indexMgr = "null" THEN "null" ELSE "stopped"
              /\ Did("index")
              /\ StopGoto(t, "clear")
              /\ UNCHANGED crashed
    /\ UNCHANGED <<catalogMeta, storeData, restarts, cfg, flagVars, segmentMgr,
                   pessimisticMgr, mgLockMgr, executorList, network, replMgr,
                   storeVars, sessVars, statVars, startVars, stopCalls, waitPc,
                   reqVars, sopVars, cronVars, cronThd, slowLog, slowVars, statReset>>

\* Line 935: _sessions.clear(); _monitors is not touched.
StopClearSessions(t) ==
    /\ Alive
    /\ stopPc[t] = "clear"
    /\ sessions' = {}
    /\ Did("clear")
    /\ StopGoto(t, "reset")
    /\ UNCHANGED <<procVars, flagVars, subsysVars, storeVars, monitors, sess,
                   statVars, startVars, stopCalls, waitPc, reqVars, sopVars,
                   cronVars, cronThd, slowLog, slowVars, statReset>>

StopResetHandlesMut(t) ==
    /\ Alive
    /\ stopPc[t] = "reset"
    /\ network' = "null"
    /\ executorList' = [i \in 1 .. Len(executorList) |-> "null"]
    /\ replMgr' = "null"
    /\ indexMgr' = "null"
    /\ pessimisticMgr' = "null"
    /\ mgLockMgr' = "null"
    /\ segmentMgr' = "null"
    /\ StopGoto(t, "catalog")
    /\ UNCHANGED <<procVars, flagVars, storeVars, sessVars, statVars, startVars,
                   stopCalls, teardown, waitPc, reqVars, sopVars, cronVars,
                   cronThd, slowLog, slowVars, statReset>>

\* Lines 937-949: drop the owning handles unless a SHUTDOWN is in progress.
StopResetHandles(t) ==
    /\ Alive
    /\ stopPc[t] = "reset"
    /\ IF ~isShutdowned
       THEN /\ network' = "null"
            /\ executorList' = [i \in 1 .. Len(executorList) |-> "null"]
            /\ replMgr' = "null"
            /\ indexMgr' = "null"
            /\ pessimisticMgr' = "null"
            /\ mgLockMgr' = "null"
            /\ segmentMgr' = "null"
       ELSE UNCHANGED subsysVars
    /\ StopGoto(t, "catalog")
    /\ UNCHANGED <<procVars, flagVars, storeVars, sessVars, statVars, startVars,
                   stopCalls, teardown, waitPc, reqVars, sopVars, cronVars,
                   cronThd, slowLog, slowVars, statReset>>

\* Lines 953-958: _catalog->stop(); its Status is logged and dropped.
StopCatalog(t) ==
    /\ Alive
    /\ stopPc[t] = "catalog"
    /\ catalog' = [catalog EXCEPT !.stops = @ + 1]
    /\ Did("catalog")
    /\ StopGoto(t, "stores")
    /\ UNCHANGED <<procVars, flagVars, subsysVars, kvstores, sessVars, statVars,
                   startVars, stopCalls, waitPc, reqVars, sopVars, cronVars,
                   cronThd, slowLog, slowVars, statReset>>

\* Lines 960-968: store->stop() for every shard from position i on; the
\* Status of each call is logged and dropped, the loop goes on.
RECURSIVE StopAllStores(_, _)
StopAllStores(stores, i) ==
    IF i > Len(stores) THEN stores
    ELSE StopAllStores([stores EXCEPT ![i].stops = @ + 1], i + 1)

StopStores(t) ==
    /\ Alive
    /\ stopPc[t] = "stores"
    /\ kvstores' = StopAllStores(kvstores, 1)
    /\ Did("stores")
    /\ StopGoto(t, "join")
    /\ UNCHANGED <<procVars, flagVars, subsysVars, catalog, sessVars, statVars,
                   startVars, stopCalls, waitPc, reqVars, sopVars, cronVars,
                   cronThd, slowLog, slowVars, statReset>>

\* Line 970: _cronThd->join() blocks until serverCron has returned. A null
\* handle is undefined behaviour; joining a thread that was already joined
\* throws std::system_error, which nothing catches.
StopJoinCron(t) ==
    /\ Alive
    /\ stopPc[t] = "join"
    /\ cronThd # "running"
    /\ \E fault \in BOOLEAN :
         IF cronThd = "joined" \/ (cronThd = "null" /\ fault)
         THEN /\ crashed' = TRUE
              /\ UNCHANGED <<cronThd, stopPc, teardown>>
         ELSE /\ cronThd' = IF cronThd = "null" THEN "null" ELSE "joined"
              /\ Did("join")
              /\ StopGoto(t, "slowlog")
              /\ UNCHANGED crashed
    /\ UNCHANGED <<catalogMeta, storeData, restarts, cfg, flagVars, subsysVars,
                   storeVars, sessVars, statVars, startVars, stopCalls, waitPc,
                   reqVars, sopVars, cronVars, slowLog, slowVars, statReset>>

\* Line 971: _slowLog.close().
StopCloseSlowlog(t) ==
    /\ Alive
    /\ stopPc[t] = "slowlog"
    /\ slowLog' = "closed"
    /\ Did("slowlog")
    /\ StopGoto(t, "finish")
    /\ UNCHANGED <<procVars, flagVars, subsysVars, storeVars, sessVars,
                   statVars, startVars, stopCalls, waitPc, reqVars, sopVars,
                   cronVars, cronThd, slowVars, statReset>>

\* Lines 973-975: _isStopped.store(true), notify_all, return.
StopFinish(t) ==
    /\ Alive
    /\ stopPc[t] = "finish"
    /\ isStopped' = TRUE
    /\ Did("stopped")
    /\ StopGoto(t, "done")
    /\ waitPc' = IF t = "waiter" THEN "returned" ELSE waitPc
    /\ UNCHANGED <<procVars, isRunning, isShutdowned, subsysVars, storeVars,
                   sessVars, statVars, startVars, stopCalls, reqVars, sopVars,
                   cronVars, cronThd, slowLog, slowVars, statReset>>

\* ------------------------------------------------------- waitStopComplete
\* A thread calls waitStopComplete().
WaitCall ==
    /\ Alive
    /\ waitPc = "idle"
    /\ startPc \in {"idle", "done"}
    /\ waitPc' = "loop"
    /\ UNCHANGED <<procVars, flagVars, subsysVars, storeVars, sessVars,
                   statVars, startVars, stopVars, reqVars, sopVars, cronVars,
                   cronThd, slowLog, slowVars, statReset>>

\* Line 894 and lines 911-915: the loop condition; when the server is not
\* running the loop is left with shutdowned = false and the function returns.
WaitLoop ==
    /\ Alive
    /\ waitPc = "loop"
    /\ waitPc' = IF isRunning THEN "waiting" ELSE "returned"
    /\ UNCHANGED <<procVars, flagVars, subsysVars, storeVars, sessVars,
                   statVars, startVars, stopVars, reqVars, sopVars, cronVars,
                   cronThd, slowLog, slowVars, statReset>>

\* Lines 895-914: wait_for returns (the predicate holds, or the 1000 ms
\* have passed); on a set _isShutdowned the waiter calls stop().
WaitWake ==
    /\ Alive
    /\ waitPc = "waiting"
    /\ MutexFree
    /\ IF ~isRunning /\ isStopped
       THEN /\ waitPc' = "returned"
            /\ UNCHANGED <<stopPc, stopCalls>>
       ELSE IF isShutdowned
       THEN /\ waitPc' = "stop"
            /\ stopPc' = [stopPc EXCEPT !["waiter"] = "check"]
            /\ stopCalls' = [stopCalls EXCEPT !["waiter"] = @ + 1]
       ELSE /\ waitPc' = "loop"
            /\ UNCHANGED <<stopPc, stopCalls>>
    /\ UNCHANGED <<procVars, flagVars, subsysVars, storeVars, sessVars,
                   statVars, startVars, teardown, reqVars, sopVars, cronVars,
                   cronThd, slowLog, slowVars, statReset>>

\* -------------------------------------------------------------- cron loop
U64(x) == x % UintMod

trackInstantaneousMetricMut(im, current_reading, t1, t2) ==
    LET t == U64(t1 - im.lastSampleTime)
        ops == U64(current_reading - im.lastSampleCount)
        ops_sec == IF t > 0 THEN U64(ops * 1000) \div t ELSE 0
    IN  [samples |-> [im.samples EXCEPT ![im.idx] = ops_sec],
         idx |-> IF im.idx + 1 = STATS_METRIC_SAMPLES THEN im.idx
                 ELSE im.idx + 1,
         lastSampleTime |-> t2,
         lastSampleCount |-> current_reading]

\* ServerStat::trackInstantaneousMetric, on one metric's record; t1 and t2
\* are the two readings of msSinceEpoch().
trackInstantaneousMetric(im, current_reading, t1, t2) ==
    LET t == U64(t1 - im.lastSampleTime)
        ops == U64(current_reading - im.lastSampleCount)
        ops_sec == IF t > 0 THEN U64(ops * 1000) \div t ELSE 0
    IN  [samples |-> [im.samples EXCEPT ![im.idx] = ops_sec],
         idx |-> (im.idx + 1) % STATS_METRIC_SAMPLES,
         lastSampleTime |-> t2,
         lastSampleCount |-> current_reading]

\* ServerStat::getInstantaneousMetric.
getInstantaneousMetric(metric) ==
    SumSeq([j \in 1 .. STATS_METRIC_SAMPLES |->
              instMetric[metric].samples[j - 1]]) \div STATS_METRIC_SAMPLES

\* The run_with_period(_ms_) gate with hz = 10.
run_with_period(ms, loop) ==
    (ms <= 1000 \div CronHz) \/ (loop % (ms \div (1000 \div CronHz)) = 0)

MatrixSub(a, b) ==
    [net |-> U64(a.net - b.net), pool |-> U64(a.pool - b.pool),
     req |-> U64(a.req - b.req)]

\* Lines 851-888: one pass of the loop of serverCron whose wait_for timed
\* out with the server still running; msSinceEpoch() has advanced by dt
\* since the previous pass.
CronStep(limit, dt) ==
    /\ Alive
    /\ cronThd = "running"
    /\ MutexFree
    /\ isRunning
    /\ cronLoop < limit
    /\ now' = now + dt
    /\ instMetric' =
         IF run_with_period(100, cronLoop)
         THEN [instMetric EXCEPT
                 !["COMMAND"] =
                    trackInstantaneousMetric(@, matrix.req, now', now'),
                 !["NET_INPUT"] =
                    trackInstantaneousMetric(@, serverStat.netInputBytes,
                                             now', now'),
                 !["NET_OUTPUT"] =
                    trackInstantaneousMetric(@, serverStat.netOutputBytes,
                                             now', now')]
         ELSE instMetric
    /\ IF run_with_period(1000, cronLoop) /\ ftmcEnabled
       THEN /\ ftmcLog' = <<MatrixSub(matrix, oldMatrix)>>
            /\ oldMatrix' = matrix
       ELSE UNCHANGED <<ftmcLog, oldMatrix>>
    /\ secMatrix' = IF run_with_period(1000, cronLoop) THEN matrix
                    ELSE secMatrix
    /\ cronLoop' = cronLoop + 1
    /\ UNCHANGED <<procVars, flagVars, subsysVars, storeVars, sessVars,
                   serverStat, matrix, slowlogId, ftmcEnabled, startVars,
                   stopVars, waitPc, reqVars, sopVars, cronThd, slowLog, slowVars, statReset>>

\* A pass of the loop that comes exactly one interval after the previous one.
CronTick(limit) == CronStep(limit, CronIntervalMs)

\* Lines 851 and 854-860: the loop condition or the wait predicate sees
\* _isRunning == false and serverCron returns.
CronExit ==
    /\ Alive
    /\ cronThd = "running"
    /\ ~isRunning
    /\ cronThd' = "exited"
    /\ UNCHANGED <<procVars, flagVars, subsysVars, storeVars, sessVars,
                   statVars, startVars, stopVars, waitPc, reqVars, sopVars,
                   cronVars, slowLog, slowVars, statReset>>


\* ---------------------------------------------------------------- slow log
\* Lines 1000-1002 of slowlogPushEntryIfNeeded, called for a command that
\* ran on the started server: the comparison with slowlogLogSlowerThan and,
\* for a slow command, the acquisition of _mutex.
SlowlogPushBegin(t, slow) ==
    /\ Alive
    /\ startRet = "OK"
    /\ isRunning
    /\ push[t].pc = "idle"
    /\ npush < MaxPushes
    /\ npush' = npush + 1
    /\ IF slow
       THEN /\ MutexFree
            /\ push' = [push EXCEPT ![t].pc = "locked"]
       ELSE UNCHANGED push
    /\ UNCHANGED <<procVars, flagVars, subsysVars, storeVars, sessVars,
                   statVars, startVars, stopVars, waitPc, reqVars, sopVars,
                   cronVars, cronThd, slowLog, slowLogFile, statReset>>

\* Lines 1003-1013: the record, with the id loaded from _slowlogId, goes to
\* the stream; a stream that is not open takes nothing.
SlowlogPushWrite(t) ==
    /\ Alive
    /\ push[t].pc = "locked"
    /\ push' = [push EXCEPT ![t] = [pc |-> "written", id |-> slowlogId]]
    /\ slowLogFile' = IF slowLog = "open"
                      THEN Append(slowLogFile, slowlogId)
                      ELSE slowLogFile
    /\ UNCHANGED <<procVars, flagVars, subsysVars, storeVars, sessVars,
                   statVars, startVars, stopVars, waitPc, reqVars, sopVars,
                   cronVars, cronThd, slowLog, npush, statReset>>

\* Lines 1015-1017: _slowlogId.fetch_add(1) and the release of _mutex.
SlowlogPushIncr(t) ==
    /\ Alive
    /\ push[t].pc = "written"
    /\ slowlogId' = U64(slowlogId + 1)
    /\ push' = [push EXCEPT ![t].pc = "idle"]
    /\ UNCHANGED <<procVars, flagVars, subsysVars, storeVars, sessVars,
                   serverStat, instMetric, matrix, ftmcEnabled, startVars,
                   stopVars, waitPc, reqVars, sopVars, cronVars, cronThd,
                   slowLog, slowLogFile, npush, statReset>>

slowlogPushEntryIfNeeded(t) ==
    \/ \E slow \in BOOLEAN : SlowlogPushBegin(t, slow)
    \/ SlowlogPushWrite(t)
    \/ SlowlogPushIncr(t)

\* ------------------------------------------------------- session registry
addSessionMut(id) ==
    /\ Alive
    /\ MutexFree
    /\ id \in sessions \/ ~sess[id].started
    /\ IF id \in sessions
       THEN /\ crashed' = TRUE
            /\ UNCHANGED <<sessions, sess>>
       ELSE /\ sess' = [sess EXCEPT ![id] = [NewSess EXCEPT !.started = TRUE,
                                                            !.addRet = "true"]]
            /\ sessions' = sessions \cup {id}
            /\ UNCHANGED crashed
    /\ UNCHANGED <<catalogMeta, storeData, restarts, cfg, flagVars, subsysVars,
                   storeVars, monitors, statVars, startVars, stopVars, waitPc,
                   reqVars, sopVars, cronVars, cronThd, slowLog, slowVars, statReset>>

\* ServerEntry::addSession. Session ids are assigned once: the id is that of
\* a new session, or (the fatal case) of one that is registered. addRet is
\* what the call returned for the session object sess[id] stands for: the
\* refusal of a second object with a registered id is not recorded in the
\* registered one.
addSession(id) ==
    /\ Alive
    /\ MutexFree
    /\ id \in sessions \/ ~sess[id].started
    /\ IF ~isRunning
       THEN /\ sess' = IF id \in sessions THEN sess
                        ELSE [sess EXCEPT ![id].addRet = "false"]
            /\ UNCHANGED <<crashed, sessions>>
       ELSE IF id \in sessions
       THEN \* sess->start() ran on the new object, then LOG(FATAL)
            /\ crashed' = TRUE
            /\ UNCHANGED <<sessions, sess>>
       ELSE /\ sess' = [sess EXCEPT ![id] = [NewSess EXCEPT !.started = TRUE,
                                                            !.addRet = "true"]]
            /\ sessions' = sessions \cup {id}
            /\ UNCHANGED crashed
    /\ UNCHANGED <<catalogMeta, storeData, restarts, cfg, flagVars, subsysVars,
                   storeVars, monitors, statVars, startVars, stopVars, waitPc,
                   reqVars, sopVars, cronVars, cronThd, slowLog, slowVars, statReset>>

\* ServerEntry::cancelSession.
cancelSession(connId) ==
    /\ Alive
    /\ MutexFree
    /\ sess' = IF isRunning /\ connId \in sessions
               THEN [sess EXCEPT ![connId].cancelled = TRUE]
               ELSE sess
    /\ UNCHANGED <<procVars, flagVars, subsysVars, storeVars, sessions,
                   monitors, statVars, startVars, stopVars, waitPc, reqVars,
                   sopVars, cronVars, cronThd, slowLog, slowVars, statReset>>

\* The position of the first monitor with this id, 0 when there is none.
MonitorPos(connId) ==
    IF \E i \in 1 .. Len(monitors) : monitors[i] = connId
    THEN CHOOSE i \in 1 .. Len(monitors) :
            /\ monitors[i] = connId
            /\ \A j \in 1 .. (i - 1) : monitors[j] # connId
    ELSE 0

\* ServerEntry::DelMonitorNoLock: erase the first entry with this id.
DelMonitorNoLock(connId) ==
    LET p == MonitorPos(connId)
    IN  IF p = 0 THEN monitors
        ELSE SubSeq(monitors, 1, p - 1) \o SubSeq(monitors, p + 1, Len(monitors))

EndSessionRunningMut(connId) == TRUE

\* Line 448: the load of _isRunning that endSession returns on.
EndSessionRunning(connId) == isRunning

\* ServerEntry::endSession. endRet is how the last call for the id ended:
\* "ignored" by the return of lines 448-450, "fatal" at line 454, "removed"
\* after the erase of line 462.
endSession(connId) ==
    /\ Alive
    /\ MutexFree
    /\ sess[connId].started
    /\ IF ~EndSessionRunning(connId)
       THEN /\ sess' = [sess EXCEPT ![connId].endRet = "ignored"]
            /\ UNCHANGED <<crashed, sessions, monitors>>
       ELSE IF connId \notin sessions
       THEN /\ crashed' = TRUE
            /\ sess' = [sess EXCEPT ![connId].endRet = "fatal"]
            /\ UNCHANGED <<sessions, monitors>>
       ELSE /\ monitors' = IF sess[connId].isMonitor
                           THEN DelMonitorNoLock(connId)
                           ELSE monitors
            /\ sessions' = sessions \ {connId}
            /\ sess' = [sess EXCEPT ![connId].endRet = "removed"]
            /\ UNCHANGED crashed
    /\ UNCHANGED <<catalogMeta, storeData, restarts, cfg, flagVars, subsysVars,
                   storeVars, statVars, startVars, stopVars, waitPc,
                   reqVars, sopVars, cronVars, cronThd, slowLog, slowVars, statReset>>

AddMonitorToMut(mons, sessId) ==
    IF sessId \notin sessions THEN mons
    ELSE Append(mons, sessId)

\* ServerEntry::AddMonitor on the monitor list mons: the list after the call.
AddMonitorTo(mons, sessId) ==
    IF \E i \in 1 .. Len(mons) : mons[i] = sessId THEN mons
    ELSE IF sessId \notin sessions THEN mons
    ELSE Append(mons, sessId)

\* ServerEntry::AddMonitor: the monitor list after the call.
AddMonitor(sessId) == AddMonitorTo(monitors, sessId)

\* The MONITOR command of a session: it flags the session's context and
\* calls AddMonitor with the session's id.
MonitorCommand(sessId) ==
    /\ Alive
    /\ MutexFree
    /\ sess[sessId].started
    /\ sess' = [sess EXCEPT ![sessId].isMonitor = TRUE]
    /\ monitors' = AddMonitor(sessId)
    /\ UNCHANGED <<procVars, flagVars, subsysVars, storeVars, sessions,
                   statVars, startVars, stopVars, waitPc, reqVars, sopVars,
                   cronVars, cronThd, slowLog, slowVars, statReset>>

\* --------------------------------------------------------- processRequest
ReqDone(s, r, set) ==
    req' = [req EXCEPT ![s] = [@ EXCEPT !.pc = "done", !.ret = r,
                                          !.respSet = set]]

\* Session::setResponse on session s.
setResponse(ss, s, line) == [ss EXCEPT ![s].resp = Append(@, line)]

\* Lines 538-557: the running check, the general log and the precheck of a
\* framed command of session s.
ProcessRequestBegin(s, cmd) ==
    /\ Alive
    /\ sess[s].started
    /\ sess[s].conn = "session"
    /\ req[s].pc = "idle"
    /\ nreq < MaxRequests
    /\ nreq' = nreq + 1
    /\ \E precheckOk \in BOOLEAN :
         IF ~isRunning
         THEN /\ req' = [req EXCEPT ![s] =
                           [IdleReq EXCEPT !.pc = "done", !.n = nreq', !.cmd = cmd,
                                           !.ret = FALSE]]
              /\ UNCHANGED sess
         ELSE IF ~precheckOk
         THEN /\ req' = [req EXCEPT ![s] =
                           [IdleReq EXCEPT !.pc = "done", !.n = nreq', !.cmd = cmd,
                                           !.sawRunning = TRUE, !.ret = TRUE,
                                           !.respSet = TRUE]]
              /\ sess' = setResponse(sess, s, <<"err">>)
         ELSE /\ req' = [req EXCEPT ![s] =
                           [IdleReq EXCEPT !.pc = "monitors", !.n = nreq', !.cmd = cmd,
                                           !.sawRunning = TRUE,
                                           !.precheckOk = TRUE]]
              /\ UNCHANGED sess
    /\ UNCHANGED <<procVars, flagVars, subsysVars, storeVars, sessions,
                   monitors, statVars, startVars, stopVars, waitPc, sopVars,
                   cronVars, cronThd, slowLog, slowVars, statReset>>

\* Lines 510-529: the line names the sender and its arguments.
MonitorLine(s) == <<"mon", req[s].n, s>>

FanOutMut(ss, mons, line) ==
    IF mons = <<>> THEN ss ELSE setResponse(ss, Head(mons), line)

\* Lines 533-535: the line is set on every session of the monitor list.
RECURSIVE FanOut(_, _, _)
FanOut(ss, mons, line) ==
    IF mons = <<>> THEN ss
    ELSE FanOut(setResponse(ss, Head(mons), line), Tail(mons), line)

\* ServerEntry::replyMonitors, called at line 559: nothing when the list is
\* empty, else the line is set on every monitor under _mutex.
replyMonitors(s) ==
    /\ Alive
    /\ req[s].pc = "monitors"
    /\ monitors = <<>> \/ MutexFree
    /\ sess' = FanOut(sess, monitors, MonitorLine(s))
    /\ req' = [req EXCEPT ![s] = [@ EXCEPT !.pc = "dispatch",
                                             !.fanned = TRUE]]
    /\ UNCHANGED <<procVars, flagVars, subsysVars, storeVars, sessions,
                   monitors, statVars, startVars, stopVars, waitPc, nreq,
                   sopVars, cronVars, cronThd, slowLog, slowVars, statReset>>

\* Command::runSessionCmd counts the executed command in the request matrix.
runSessionCmd(m) == [m EXCEPT !.req = U64(@ + 1)]

DispatchReturnMut(cmd) == cmd \notin {"fullsync", "incrsync", "quit"}

\* The value processRequest returns for a command that passed the precheck.
DispatchReturn(cmd) == cmd \notin {"fullsync", "incrsync"}

SyncCounterMut(cmd, ok) ==
    IF cmd = "fullsync" THEN "syncFull" ELSE "syncPartialOk"

\* Lines 569 and 579-583: the counter a hijacked command bumps; ok is the
\* value registerIncrSync returned.
SyncCounter(cmd, ok) ==
    IF cmd = "fullsync" THEN "syncFull"
    ELSE IF ok THEN "syncPartialOk" ELSE "syncPartialErr"

\* Lines 561-600: the replication hijack, quit, or the command itself.
ProcessRequestDispatch(s) ==
    /\ Alive
    /\ req[s].pc = "dispatch"
    /\ \E ok \in BOOLEAN, fault \in BOOLEAN :
         LET cmd == req[s].cmd IN
         IF cmd \in {"fullsync", "incrsync"} /\ replMgr = "null" /\ fault
         THEN \* _replMgr was reset by stop(): a call through a null handle
              /\ crashed' = TRUE
              /\ UNCHANGED <<sess, serverStat, matrix, req>>
         ELSE /\ UNCHANGED crashed
              /\ IF cmd = "fullsync"
                 THEN /\ sess' = [sess EXCEPT ![s].conn = "repl"]
                      /\ serverStat' =
                           [serverStat EXCEPT
                              ![SyncCounter(cmd, ok)] = U64(@ + 1)]
                      /\ UNCHANGED matrix
                      /\ ReqDone(s, DispatchReturn(cmd), FALSE)
                 ELSE IF cmd = "incrsync"
                 THEN /\ sess' = [sess EXCEPT ![s].conn = "repl"]
                      /\ serverStat' =
                           [serverStat EXCEPT
                              ![SyncCounter(cmd, ok)] = U64(@ + 1)]
                      /\ UNCHANGED matrix
                      /\ req' = [req EXCEPT ![s] =
                                   [@ EXCEPT !.pc = "done",
                                             !.ret = DispatchReturn(cmd),
                                             !.regOk = ok]]
                 ELSE IF cmd = "quit"
                 THEN /\ sess' = [setResponse(sess, s, <<"ok">>)
                                    EXCEPT ![s].closeAfterRsp = TRUE]
                      /\ UNCHANGED <<serverStat, matrix>>
                      /\ ReqDone(s, DispatchReturn(cmd), TRUE)
                 ELSE /\ matrix' = runSessionCmd(matrix)
                      /\ sess' = setResponse(sess, s,
                                   <<IF ok THEN "reply" ELSE "err">>)
                      /\ UNCHANGED serverStat
                      /\ req' = [req EXCEPT ![s] =
                                   [@ EXCEPT !.pc = "done",
                                             !.ret = DispatchReturn(cmd),
                                             !.respSet = TRUE, !.ran = TRUE]]
    /\ UNCHANGED <<catalogMeta, storeData, restarts, cfg, flagVars, subsysVars,
                   storeVars, sessions, monitors, instMetric, slowlogId,
                   ftmcEnabled, startVars, stopVars, waitPc, nreq, sopVars,
                   cronVars, cronThd, slowLog, slowVars, statReset>>


\* processRequest has returned to the session's I/O loop, which sends what
\* is in the response buffer when the value is true.
ProcessRequestReturn(s) ==
    /\ Alive
    /\ req[s].pc = "done"
    /\ req' = [req EXCEPT ![s] = IdleReq]
    /\ sess' = IF req[s].ret = TRUE THEN [sess EXCEPT ![s].resp = <<>>]
               ELSE sess
    /\ UNCHANGED <<procVars, flagVars, subsysVars, storeVars, sessions,
                   monitors, statVars, startVars, stopVars, waitPc, nreq,
                   sopVars, cronVars, cronThd, slowLog, slowVars, statReset>>

\* ------------------------------------------------- store lifecycle operations
\* What the storage engine and its clients do to a shard between the
\* coordinator's operations: the shard is paused or resumed, keys are written.
PauseStore(i) ==
    /\ Alive
    /\ isRunning
    /\ sop.pc = "idle"
    /\ i < Len(kvstores)
    /\ kvstores[i + 1].state = "open"
    /\ kvstores' = [kvstores EXCEPT ![i + 1].paused = ~@]
    /\ UNCHANGED <<procVars, flagVars, subsysVars, catalog, sessVars, statVars,
                   startVars, stopVars, waitPc, reqVars, sopVars, cronVars,
                   cronThd, slowLog, slowVars, statReset>>

WriteKey(i) ==
    /\ Alive
    /\ isRunning
    /\ sop.pc = "idle"
    /\ i < Len(kvstores)
    /\ kvstores[i + 1].state = "open"
    /\ kvstores[i + 1].mode = "READ_WRITE"
    /\ ~kvstores[i + 1].paused
    /\ ~storeData[i]
    /\ storeData' = [storeData EXCEPT ![i] = TRUE]
    /\ UNCHANGED <<crashed, catalogMeta, restarts, cfg, flagVars, subsysVars,
                   storeVars, sessVars, statVars, startVars, stopVars, waitPc,
                   reqVars, sopVars, cronVars, cronThd, slowLog, slowVars, statReset>>

SopReturn(st) == sop' = [sop EXCEPT !.pc = "done", !.ret = st]

DestroyPrecheckMut(isForce, isEmpty, isPaused) ==
    IF ~isPaused
    THEN "ERR_INTERNAL:please pausestore first before destroystore"
    ELSE "OK"

\* Lines 753-763 of destroyStore: the status of the two requirements, "OK"
\* when the operation may go on.
DestroyPrecheck(isForce, isEmpty, isPaused) ==
    IF ~isForce /\ ~isEmpty THEN "ERR_INTERNAL:try to close an unempty store"
    ELSE IF ~isPaused
    THEN "ERR_INTERNAL:please pausestore first before destroystore"
    ELSE "OK"

\* Lines 744-763: destroyStore takes the X lock of the shard through the
\* segment manager and checks its two requirements.
DestroyStoreBegin(storeId, isForce) ==
    /\ Alive
    /\ isRunning
    /\ sop.pc = "idle"
    /\ nsop < MaxStoreOps
    /\ storeId < Len(kvstores)
    /\ nsop' = nsop + 1
    /\ expectMode' = [expectMode EXCEPT ![storeId] = "none"]
    /\ \E lockOk \in BOOLEAN :
         LET st == kvstores[storeId + 1]
             chk == DestroyPrecheck(isForce, ~storeData[storeId], st.paused)
             op == [IdleSop EXCEPT !.kind = "destroy", !.store = storeId,
                                   !.force = isForce, !.locked = lockOk]
         IN  sop' = IF ~lockOk
                    THEN [op EXCEPT !.pc = "done", !.ret = "ERR_GETDB"]
                    ELSE IF chk # "OK"
                    THEN [op EXCEPT !.pc = "done", !.ret = chk]
                    ELSE [op EXCEPT !.pc = "catalog"]
    /\ UNCHANGED <<procVars, flagVars, subsysVars, storeVars, sessVars,
                   statVars, startVars, stopVars, waitPc, reqVars, cronVars,
                   cronThd, slowLog, slowVars, statReset>>

\* Lines 773-785: read the shard's StoreMainMeta and write it back with
\* STORE_NONE; either failure is returned.
DestroyStoreCatalog ==
    /\ Alive
    /\ sop.kind = "destroy"
    /\ sop.pc = "catalog"
    /\ \E readOk \in BOOLEAN, writeOk \in BOOLEAN :
         IF ~readOk \/ catalogMeta[sop.store] = "ABSENT"
         THEN /\ SopReturn("ERR_GETMETA")
              /\ UNCHANGED catalogMeta
         ELSE IF ~writeOk
         THEN /\ SopReturn("ERR_SETMETA")
              /\ UNCHANGED catalogMeta
         ELSE /\ catalogMeta' = [catalogMeta EXCEPT ![sop.store] = "STORE_NONE"]
              /\ sop' = [sop EXCEPT !.pc = "destroy"]
    /\ UNCHANGED <<crashed, storeData, restarts, cfg, flagVars, subsysVars,
                   storeVars, sessVars, statVars, startVars, stopVars, waitPc,
                   reqVars, nsop, expectMode, cronVars, cronThd, slowLog, slowVars, statReset>>

\* Lines 787-793: store->destroy().
DestroyStoreDestroy ==
    /\ Alive
    /\ sop.kind = "destroy"
    /\ sop.pc = "destroy"
    /\ \E ok \in BOOLEAN :
         IF ok
         THEN /\ kvstores' = [kvstores EXCEPT
                                ![sop.store + 1].mode = "STORE_NONE",
                                ![sop.store + 1].state = "destroyed"]
              /\ storeData' = [storeData EXCEPT ![sop.store] = FALSE]
              /\ sop' = [sop EXCEPT !.pc = "repl"]
         ELSE /\ SopReturn("ERR_DESTROY")
              /\ UNCHANGED <<kvstores, storeData>>
    /\ UNCHANGED <<crashed, catalogMeta, restarts, cfg, flagVars, subsysVars,
                   catalog, sessVars, statVars, startVars, stopVars, waitPc,
                   reqVars, nsop, expectMode, cronVars, cronThd, slowLog, slowVars, statReset>>

\* Lines 795-800: _replMgr->stopStore(storeId).
DestroyStoreStopRepl ==
    /\ Alive
    /\ sop.kind = "destroy"
    /\ sop.pc = "repl"
    /\ \E ok \in BOOLEAN, fault \in BOOLEAN :
         IF replMgr = "null" /\ fault
         THEN /\ crashed' = TRUE
              /\ UNCHANGED <<kvstores, sop>>
         ELSE IF ok /\ replMgr # "null"
         THEN /\ kvstores' = [kvstores EXCEPT ![sop.store + 1].replStopped = TRUE]
              /\ sop' = [sop EXCEPT !.pc = "index"]
              /\ UNCHANGED crashed
         ELSE /\ SopReturn("ERR_REPL_STOPSTORE")
              /\ UNCHANGED <<crashed, kvstores>>
    /\ UNCHANGED <<catalogMeta, storeData, restarts, cfg, flagVars, subsysVars,
                   catalog, sessVars, statVars, startVars, stopVars, waitPc,
                   reqVars, nsop, expectMode, cronVars, cronThd, slowLog, slowVars, statReset>>

\* Lines 802-809: _indexMgr->stopStore(storeId), called whether or not an
\* index manager was installed.
DestroyStoreStopIndex ==
    /\ Alive
    /\ sop.kind = "destroy"
    /\ sop.pc = "index"
    /\ \E ok \in BOOLEAN, fault \in BOOLEAN :
         IF indexMgr = "null" /\ fault
         THEN /\ crashed' = TRUE
              /\ UNCHANGED <<kvstores, sop>>
         ELSE IF ok /\ indexMgr # "null"
         THEN /\ kvstores' = [kvstores EXCEPT ![sop.store + 1].indexStopped = TRUE]
              /\ SopReturn("OK")
              /\ UNCHANGED crashed
         ELSE /\ SopReturn("ERR_INDEX_STOPSTORE")
              /\ UNCHANGED <<crashed, kvstores>>
    /\ UNCHANGED <<catalogMeta, storeData, restarts, cfg, flagVars, subsysVars,
                   catalog, sessVars, statVars, startVars, stopVars, waitPc,
                   reqVars, nsop, expectMode, cronVars, cronThd, slowLog, slowVars, statReset>>

\* Lines 812-826: setStoreMode returns at once when the shard has the mode,
\* else store->setMode(mode), whose failure is LOG(FATAL).
SetStoreModeBegin(storeId, mode) ==
    /\ Alive
    /\ isRunning
    /\ sop.pc = "idle"
    /\ nsop < MaxStoreOps
    /\ storeId < Len(kvstores)
    /\ kvstores[storeId + 1].state = "open"
    /\ nsop' = nsop + 1
    /\ \E ok \in BOOLEAN :
         LET op == [IdleSop EXCEPT !.kind = "setmode", !.store = storeId,
                                   !.mode = mode, !.locked = TRUE]
         IN  IF kvstores[storeId + 1].mode = mode
             THEN /\ sop' = [op EXCEPT !.pc = "done", !.ret = "OK"]
                  /\ expectMode' =
                       [expectMode EXCEPT ![storeId] = <<mode, restarts>>]
                  /\ UNCHANGED <<crashed, kvstores>>
             ELSE IF ~ok
             THEN /\ crashed' = TRUE
                  /\ expectMode' = [expectMode EXCEPT ![storeId] = "none"]
                  /\ UNCHANGED <<kvstores, sop>>
             ELSE /\ kvstores' = [kvstores EXCEPT ![storeId + 1].mode = mode]
                  /\ sop' = [op EXCEPT !.pc = "catalog"]
                  /\ expectMode' = [expectMode EXCEPT ![storeId] = "none"]
                  /\ UNCHANGED crashed
    /\ UNCHANGED <<catalogMeta, storeData, restarts, cfg, flagVars, subsysVars,
                   catalog, sessVars, statVars, startVars, stopVars, waitPc,
                   reqVars, cronVars, cronThd, slowLog, slowVars, statReset>>

\* Lines 827-834: read the shard's StoreMainMeta and persist the new mode.
\* The result of the read is used unchecked: after a failed read the record
\* written is indeterminate (any store id), or the process faults.
SetStoreModeCatalog ==
    /\ Alive
    /\ sop.kind = "setmode"
    /\ sop.pc = "catalog"
    /\ \E readOk \in BOOLEAN, writeOk \in BOOLEAN, fault \in BOOLEAN,
          j \in 0 .. (Len(kvstores) - 1) :
         IF ~readOk /\ fault
         THEN /\ crashed' = TRUE
              /\ UNCHANGED <<catalogMeta, sop, expectMode>>
         ELSE IF ~writeOk
         THEN /\ SopReturn("ERR_SETMETA")
              /\ UNCHANGED <<crashed, catalogMeta, expectMode>>
         ELSE LET k == IF readOk THEN sop.store ELSE j IN
              /\ catalogMeta' = [catalogMeta EXCEPT ![k] = sop.mode]
              /\ SopReturn("OK")
              /\ expectMode' =
                   IF readOk
                   THEN [expectMode EXCEPT ![k] = <<sop.mode, restarts>>]
                   ELSE [expectMode EXCEPT ![k] = "none", ![sop.store] = "none"]
              /\ UNCHANGED crashed
    /\ UNCHANGED <<storeData, restarts, cfg, flagVars, subsysVars, storeVars,
                   sessVars, statVars, startVars, stopVars, waitPc, reqVars,
                   nsop, cronVars, cronThd, slowLog, slowVars, statReset>>

\* destroyStore or setStoreMode has returned to the command that called it;
\* the command ends and releases the X lock of the shard.
StoreOpReturn ==
    /\ Alive
    /\ sop.pc = "done"
    /\ sop' = IdleSop
    /\ UNCHANGED <<procVars, flagVars, subsysVars, storeVars, sessVars,
                   statVars, startVars, stopVars, waitPc, reqVars, nsop,
                   expectMode, cronVars, cronThd, slowLog, slowVars, statReset>>

\* ---------------------------------------------------------------- restart
\* The process has stopped; a new process constructs a fresh ServerEntry
\* with the same configuration over the same disk (catalog and shard data).
Restart ==
    /\ Alive
    /\ restarts < MaxRestarts
    /\ startRet = "OK"
    /\ ~isRunning
    /\ isStopped
    /\ \A t \in StopThreads : stopPc[t] \in {"idle", "done"}
    /\ waitPc \in {"idle", "returned"}
    /\ sop.pc = "idle"
    /\ \A x \in SessIds : req[x].pc = "idle"
    /\ restarts' = restarts + 1
    /\ isRunning' = FALSE
    /\ isStopped' = TRUE
    /\ isShutdowned' = FALSE
    /\ catalog' = [state |-> "null", kvStoreCount |-> 0, stops |-> 0]
    /\ kvstores' = <<>>
    /\ segmentMgr' = "null"
    /\ pessimisticMgr' = "null"
    /\ mgLockMgr' = "null"
    /\ executorList' = <<>>
    /\ network' = "null"
    /\ replMgr' = "null"
    /\ indexMgr' = "null"
    /\ cronThd' = "null"
    /\ slowLog' = "closed"
    /\ sessions' = {}
    /\ monitors' = <<>>
    /\ sess' = [s \in SessIds |-> NewSess]
    /\ serverStat' = ZeroStat
    /\ instMetric' = [m \in Metrics |-> ZeroMetric]
    /\ matrix' = ZeroMatrix
    /\ slowlogId' = 0
    /\ ftmcEnabled' = FALSE
    /\ startPc' = "idle"
    /\ startI' = 0
    /\ startRet' = "none"
    /\ startFail' = "none"
    /\ threadnum' = 0
    /\ tmpStores' = <<>>
    /\ stopPc' = [t \in StopThreads |-> "idle"]
    /\ stopCalls' = [t \in StopThreads |-> 0]
    /\ teardown' = [k \in {"network", "executors", "repl", "index", "clear",
                          "catalog", "stores", "join", "slowlog", "stopped"}
                     |-> 0]
    /\ waitPc' = "idle"
    /\ req' = [s \in SessIds |-> IdleReq]
    /\ nreq' = 0
    /\ sop' = IdleSop
    /\ nsop' = 0
    /\ cronLoop' = 0
    /\ oldMatrix' = ZeroMatrix
    /\ secMatrix' = ZeroMatrix
    /\ ftmcLog' = <<>>
    /\ push' = [t \in PushThreads |-> [pc |-> "idle", id |-> 0]]
    /\ UNCHANGED <<crashed, catalogMeta, storeData, cfg, expectMode, now,
                   slowLogFile, npush>>
    /\ statReset' = [statReset EXCEPT !.pc = "idle"]


\* --------------------------------------------------------- specifications
Startup ==
    \/ StartupBegin
    \/ StartupStoreInit
    \/ StartupInstall
    \/ StartupCpuNum
    \/ StartupExecutor
    \/ StartupNetwork
    \/ StartupRepl
    \/ StartupIndex
    \/ StartupRun
    \/ StartupSetRunning
    \/ StartupSetNotStopped
    \/ StartupSpawnCron
    \/ StartupFinish

Stop(t) ==
    \/ StopCheck(t)
    \/ StopSetFlag(t)
    \/ StopNetwork(t)
    \/ StopExecutors(t)
    \/ StopRepl(t)
    \/ StopIndex(t)
    \/ StopClearSessions(t)
    \/ StopResetHandles(t)
    \/ StopCatalog(t)
    \/ StopStores(t)
    \/ StopJoinCron(t)
    \/ StopCloseSlowlog(t)
    \/ StopFinish(t)

WaitStopComplete == WaitCall \/ WaitLoop \/ WaitWake

ServerCron == CronTick(MaxCronLoop) \/ CronExit

\* The life cycle: startup, the cron thread, SHUTDOWN, the waiter and
\* callers of stop().
Next ==
    \/ Startup
    \/ ServerCron
    \/ handleShutdownCmd
    \/ WaitStopComplete
    \/ \E t \in StopThreads : StopCall(t) \/ Stop(t)
    \/ \E id \in SessIds : addSession(id)

Spec == Init /\ [][Next]_vars

\* The session registry on a server that is started and stopped.
NextSess ==
    \/ Startup
    \/ CronExit
    \/ StopCall("ext") \/ Stop("ext")
    \/ \E id \in SessIds :
         \/ addSession(id)
         \/ cancelSession(id)
         \/ endSession(id)
         \/ MonitorCommand(id)

SpecSess == Init /\ [][NextSess]_vars

\* The request dispatcher, with sessions that register and turn into
\* monitors, on a server that is started and stopped; MaxRacingRequests
\* commands are framed.
NextReq ==
    \/ Startup
    \/ CronExit
    \/ StopCall("ext") \/ Stop("ext")
    \/ \E id \in SessIds :
         \/ addSession(id)
         \/ MonitorCommand(id)
         \/ replyMonitors(id)
         \/ ProcessRequestDispatch(id)
         \/ ProcessRequestReturn(id)
         \/ \E cmd \in CmdNames :
              /\ nreq < MaxRacingRequests
              /\ ProcessRequestBegin(id, cmd)

SpecReq == Init /\ [][NextReq]_vars

\* Commands of sessions that register with fresh ids and may turn into
\* monitors, on a server that keeps running.
NextMonitor ==
    \/ Startup
    \/ \E id \in {i \in SessIds : ~sess[i].started} : addSession(id)
    \/ \E id \in SessIds :
         \/ MonitorCommand(id)
         \/ replyMonitors(id)
         \/ ProcessRequestDispatch(id)
         \/ ProcessRequestReturn(id)
         \/ \E cmd \in CmdNames : ProcessRequestBegin(id, cmd)

SpecMonitor == Init /\ [][NextMonitor]_vars

\* The store operations on a running server.
NextStore ==
    \/ Startup
    \/ \E i \in StoreIds :
         \/ PauseStore(i)
         \/ WriteKey(i)
         \/ \E f \in BOOLEAN : DestroyStoreBegin(i, f)
         \/ \E m \in SettableModes : SetStoreModeBegin(i, m)
    \/ DestroyStoreCatalog
    \/ DestroyStoreDestroy
    \/ DestroyStoreStopRepl
    \/ DestroyStoreStopIndex
    \/ SetStoreModeCatalog
    \/ StoreOpReturn

SpecStore == Init /\ [][NextStore]_vars

\* Changes of a shard's mode on a server that is started, stopped and
\* restarted over the same disk.
NextRestart ==
    \/ Startup
    \/ CronExit
    \/ StopCall("ext") \/ Stop("ext")
    \/ Restart
    \/ \E i \in StoreIds, m \in SettableModes : SetStoreModeBegin(i, m)
    \/ SetStoreModeCatalog
    \/ StoreOpReturn

SpecRestart == Init /\ [][NextRestart]_vars


\* SHUTDOWN with a waiter and no other caller of stop(); sessions are
\* registered with fresh ids. The waiter's wait_for times out within a
\* second, stop() runs on the waiter's thread and the cron thread is
\* scheduled.
NextShutdown ==
    \/ Startup
    \/ ServerCron
    \/ handleShutdownCmd
    \/ WaitStopComplete
    \/ Stop("waiter")
    \/ \E id \in {i \in SessIds : ~sess[i].started} : addSession(id)

SpecShutdown ==
    /\ Init
    /\ [][NextShutdown]_vars
    /\ WF_vars(WaitStopComplete)
    /\ WF_vars(Stop("waiter"))
    /\ WF_vars(CronExit)

\* Worker threads finish one more command: _reqMatrix->processed grows.
ProcessCommand ==
    /\ Alive
    /\ isRunning
    /\ U64(matrix.req + 1 - instMetric["COMMAND"].lastSampleCount)
           <= MaxOpsPerTick
    /\ matrix' = [matrix EXCEPT !.req = U64(@ + 1)]
    /\ UNCHANGED <<procVars, flagVars, subsysVars, storeVars, sessVars,
                   serverStat, instMetric, slowlogId, ftmcEnabled, startVars,
                   stopVars, waitPc, reqVars, sopVars, cronVars, cronThd,
                   slowLog, slowVars, statReset>>

\* The delays between two passes of the cron loop: the nominal interval, a
\* late wake-up, and a clock that did not advance.
TickDelays == {0, CronIntervalMs, 2 * CronIntervalMs}

\* The sample written by the previous pass for a metric.
LastSample(metric) ==
    instMetric[metric].samples[
        (instMetric[metric].idx + STATS_METRIC_SAMPLES - 1)
            % STATS_METRIC_SAMPLES]

\* A pass over which the processed-commands counter grew at exactly the
\* rate the previous pass sampled.
SteadyPass(dt) ==
    LET ms == U64(now + dt - instMetric["COMMAND"].lastSampleTime)
        ops == U64(matrix.req - instMetric["COMMAND"].lastSampleCount)
    IN  ms > 0 /\ ops * 1000 = LastSample("COMMAND") * ms

\* The cron loop under a command load that, after MaxUnsteadyTicks passes
\* with any load, stays at the rate it then has.
NextMetric ==
    \/ Startup
    \/ ProcessCommand
    \/ \E dt \in TickDelays :
         /\ cronLoop >= MaxUnsteadyTicks => SteadyPass(dt)
         /\ CronStep(MaxMetricTicks, dt)

SpecMetric == Init /\ [][NextMetric]_vars

\* ServerEntry::toggleFtmc.
toggleFtmc(enable) ==
    /\ Alive
    /\ startRet = "OK"
    /\ ftmcEnabled # enable
    /\ ftmcEnabled' = enable
    /\ UNCHANGED <<procVars, flagVars, subsysVars, storeVars, sessVars,
                   serverStat, instMetric, matrix, slowlogId, startVars,
                   stopVars, waitPc, reqVars, sopVars, cronVars, cronThd,
                   slowLog, slowVars, statReset>>

\* The cron loop over more than a second, with the full-time matrix collect
\* toggled and MaxFtmcCommands commands processed.
NextFtmc ==
    \/ Startup
    \/ matrix.req < MaxFtmcCommands /\ ProcessCommand
    \/ \E enable \in BOOLEAN : toggleFtmc(enable)
    \/ CronTick(MaxFtmcTicks)

SpecFtmc == Init /\ [][NextFtmc]_vars

StatCounters == {"req", "netInputBytes", "netOutputBytes"}

\* An I/O or worker thread adds to one of the atomic counters the cron
\* thread reads; no mutex is involved.
CounterIncr(c) ==
    /\ Alive
    /\ isRunning
    /\ IF c = "req"
       THEN /\ matrix.req < MaxStatCount
            /\ matrix' = [matrix EXCEPT !.req = U64(@ + 1)]
            /\ UNCHANGED serverStat
       ELSE /\ serverStat[c] < MaxStatCount
            /\ serverStat' = [serverStat EXCEPT ![c] = U64(@ + 1)]
            /\ UNCHANGED matrix
    /\ UNCHANGED <<procVars, flagVars, subsysVars, storeVars, sessVars,
                   instMetric, slowlogId, ftmcEnabled, startVars,
                   stopVars, waitPc, reqVars, sopVars, cronVars, cronThd,
                   slowLog, slowVars, statReset>>

\* Lines 123-128: resetServerStat takes _mutex and resets the three
\* matrices.
ResetMatrices ==
    /\ Alive
    /\ isRunning
    /\ MutexFree
    /\ statReset.n < MaxStatResets
    /\ statReset' = [pc |-> "counters", n |-> statReset.n + 1]
    /\ matrix' = ZeroMatrix
    /\ UNCHANGED <<procVars, flagVars, subsysVars, storeVars, sessVars,
                   serverStat, instMetric, slowlogId, ftmcEnabled, startVars,
                   stopVars, waitPc, reqVars, sopVars, cronVars, cronThd,
                   slowLog, slowVars>>

\* Lines 24-35: ServerStat::reset stores 0 to the counters.
ServerStatResetCounters ==
    /\ Alive
    /\ statReset.pc = "counters"
    /\ statReset' = [statReset EXCEPT !.pc = "instMetric"]
    /\ serverStat' = ZeroStat
    /\ UNCHANGED <<procVars, flagVars, subsysVars, storeVars, sessVars,
                   instMetric, matrix, slowlogId, ftmcEnabled, startVars,
                   stopVars, waitPc, reqVars, sopVars, cronVars, cronThd,
                   slowLog, slowVars>>

ServerStatResetInstMetricMut ==
    /\ Alive
    /\ statReset.pc = "instMetric"
    /\ statReset' = [statReset EXCEPT !.pc = "idle"]
    /\ instMetric' = [m \in Metrics |->
                        [instMetric[m] EXCEPT
                           !.samples = ZeroMetric.samples, !.idx = 0]]
    /\ UNCHANGED <<procVars, flagVars, subsysVars, storeVars, sessVars,
                   serverStat, matrix, slowlogId, ftmcEnabled, startVars,
                   stopVars, waitPc, reqVars, sopVars, cronVars, cronThd,
                   slowLog, slowVars>>

\* Line 36 and the returns: memset(&instMetric, 0, sizeof(instMetric)); both
\* mutexes are released.
ServerStatResetInstMetric ==
    /\ Alive
    /\ statReset.pc = "instMetric"
    /\ statReset' = [statReset EXCEPT !.pc = "idle"]
    /\ instMetric' = [m \in Metrics |-> ZeroMetric]
    /\ UNCHANGED <<procVars, flagVars, subsysVars, storeVars, sessVars,
                   serverStat, matrix, slowlogId, ftmcEnabled, startVars,
                   stopVars, waitPc, reqVars, sopVars, cronVars, cronThd,
                   slowLog, slowVars>>

resetServerStat ==
    ResetMatrices \/ ServerStatResetCounters \/ ServerStatResetInstMetric

\* The counters, their reset and the sampling of the cron thread.
NextStat ==
    \/ Startup
    \/ \E c \in StatCounters : CounterIncr(c)
    \/ resetServerStat
    \/ CronTick(MaxStatTicks)

SpecStat == Init /\ [][NextStat]_vars

\* Worker threads logging slow commands on a started server.
NextSlowlog ==
    \/ Startup
    \/ \E t \in PushThreads : slowlogPushEntryIfNeeded(t)

SpecSlowlog == Init /\ [][NextSlowlog]_vars

\* A cancelled session reacts by ending itself: its I/O loop sees the
\* cancellation and calls endSession with its own id.
ReactToCancel(id) ==
    /\ sess[id].cancelled
    /\ id \in sessions
    /\ endSession(id)

\* Sessions that register with fresh ids, are cancelled and end themselves,
\* on a server that another thread stops. The stopping thread and the
\* cancelled sessions are scheduled.
NextCancel ==
    \/ Startup
    \/ CronExit
    \/ StopCall("ext") \/ Stop("ext")
    \/ \E id \in {i \in SessIds : ~sess[i].started} : addSession(id)
    \/ \E id \in SessIds : cancelSession(id) \/ ReactToCancel(id)

SpecCancel ==
    /\ Init
    /\ [][NextCancel]_vars
    /\ WF_vars(Stop("ext"))
    /\ \A id \in SessIds : WF_vars(ReactToCancel(id))

\* ------------------------------------------------------------------ claims
ResponseKinds == {"err", "ok", "reply"}

HasResponse(s) ==
    \E i \in 1 .. Len(sess[s].resp) : sess[s].resp[i][1] \in ResponseKinds

\* C1: when processRequest returns, the value is false exactly when the
\* server was not running at the entry check or the command that passed the
\* precheck is fullsync or incrsync; in every other case the value is true
\* and a response has been set on the session.
ProcessRequestReturnValue ==
    \A s \in SessIds :
        req[s].pc = "done" =>
            /\ req[s].ret \in BOOLEAN
            /\ (req[s].ret = FALSE) <=>
                   \/ ~req[s].sawRunning
                   \/ /\ req[s].precheckOk
                      /\ req[s].cmd \in {"fullsync", "incrsync"}
            /\ req[s].ret = TRUE => (req[s].respSet /\ HasResponse(s))
            /\ req[s].ret = FALSE => ~req[s].respSet

HijackReturnedFalse ==
    \E s \in SessIds :
        /\ req[s].pc = "done"
        /\ req[s].sawRunning
        /\ req[s].precheckOk
        /\ req[s].cmd = "incrsync"
        /\ req[s].ret = FALSE

\* C2: every session in the monitor list is in the session map.
MonitorsSubsetOfSessions ==
    \A i \in 1 .. Len(monitors) : monitors[i] \in sessions

\* C3: each teardown step of stop() (subsystem stops, session clear, catalog
\* and shard stops, cron join, slow-log close, the stopped flag) is executed
\* at most once on a server, however stop() is called.
StopTeardownAtMostOnce ==
    \A k \in DOMAIN teardown : teardown[k] <= 1

FailStatus(step) ==
    CASE step = "cpunum" -> "ERR_INTERNAL"
      [] step = "executor" -> "ERR_EXECUTOR"
      [] step = "prepare" -> "ERR_PREPARE"
      [] step = "repl" -> "ERR_REPL"
      [] step = "index" -> "ERR_INDEX"
      [] step = "run" -> "ERR_RUN"
      [] OTHER -> "ERR_CATALOG"

FatalSteps == {"getmeta", "setmeta"}

\* The steps after the failed one were not executed.
LaterStepsNotRun(step) ==
    /\ step \in FatalSteps =>
           /\ kvstores = <<>>
           /\ segmentMgr = "null" /\ pessimisticMgr = "null"
           /\ mgLockMgr = "null"
    /\ step \in FatalSteps \cup {"cpunum"} => executorList = <<>>
    /\ step = "executor" => Len(executorList) < threadnum
    /\ step \in FatalSteps \cup {"cpunum", "executor"} => network = "null"
    /\ step = "prepare" => network = "created"
    /\ step \in FatalSteps \cup {"cpunum", "executor", "prepare"} =>
           replMgr = "null"
    /\ step = "repl" => replMgr = "created"
    /\ step \in FatalSteps \cup {"cpunum", "executor", "prepare", "repl"} =>
           indexMgr = "null"
    /\ step = "index" => indexMgr = "created"
    /\ network # "running"

StartupLeftNotRunning ==
    /\ ~isRunning
    /\ isStopped
    /\ cronThd = "null"
    /\ slowLog = "closed"

\* C4 as stated: whichever step of startup fails, catalog meta read and
\* write included, startup returns that failure, no later step is
\* executed, the server is left not running and no cron thread is spawned.
StartupFailureIsReturned ==
    startFail # "none" =>
        /\ startPc = "done"
        /\ startRet = FailStatus(startFail)
        /\ LaterStepsNotRun(startFail)
        /\ StartupLeftNotRunning

\* C4, amended: a failure of hardware_concurrency, worker pool startup,
\* network prepare, replication startup, index manager startup or network
\* run is returned by startup; a failed catalog meta read or write aborts
\* the process (LOG(FATAL)) and startup does not return. In both cases no
\* later step is executed, isRunning stays false, isStopped stays true and
\* no cron thread is spawned.
StartupFailureAborts ==
    startFail # "none" =>
        /\ IF startFail \in FatalSteps
           THEN crashed /\ startRet = "none" /\ startPc = "stores"
           ELSE startPc = "done" /\ startRet = FailStatus(startFail)
        /\ LaterStepsNotRun(startFail)
        /\ StartupLeftNotRunning

StartupFailedAtRun ==
    /\ startFail = "run"
    /\ startRet = "ERR_RUN"
    /\ replMgr = "started"
    /\ network = "prepared"

\* C5: in a startup whose installation steps have succeeded, the catalog
\* reports cfg.kvStoreCount shards, that many shards are installed and every
\* shard was constructed with the mode its StoreMainMeta holds in the
\* catalog; the count is kept by a startup that returned OK.
StartupAdoptsCatalogModes ==
    /\ startPc \in {"cpunum", "executors", "repl", "index", "run",
                    "setrunning"} =>
           /\ getKVStoreCount = cfg.kvStoreCount
           /\ Len(kvstores) = cfg.kvStoreCount
           /\ \A i \in 0 .. (cfg.kvStoreCount - 1) :
                  /\ catalogMeta[i] \in StoreModes
                  /\ kvstores[i + 1].ctorMode = catalogMeta[i]
                  /\ kvstores[i + 1].mode = catalogMeta[i]
    /\ startRet = "OK" =>
           /\ getKVStoreCount = cfg.kvStoreCount
           /\ Len(kvstores) = cfg.kvStoreCount

RestartAdoptedReplicateOnly ==
    /\ restarts > 0
    /\ startPc = "setrunning"
    /\ \E i \in 0 .. (cfg.kvStoreCount - 1) :
           kvstores[i + 1].ctorMode = "REPLICATE_ONLY"

\* C6: while the acceptor runs, the shard array, the segment router, the
\* lock managers and all worker pools are installed, the replication
\* manager has started and, when expiry is enabled, so has the index
\* manager; while the replication manager starts the network is prepared
\* and not accepting; isRunning is true only with the acceptor running.
AcceptIsLast ==
    /\ network = "running" =>
           /\ Len(kvstores) = cfg.kvStoreCount
           /\ segmentMgr = "set"
           /\ pessimisticMgr = "set"
           /\ mgLockMgr = "set"
           /\ Len(executorList) = threadnum
           /\ threadnum > 0
           /\ \A i \in 1 .. Len(executorList) : executorList[i] = "started"
           /\ replMgr = "started"
           /\ ~cfg.noexpire => indexMgr = "started"
    /\ startPc \in {"repl", "index", "run"} => network = "prepared"
    /\ isRunning => network = "running"

RunningWithIndexMgr ==
    /\ isRunning
    /\ network = "running"
    /\ ~cfg.noexpire
    /\ indexMgr = "started"

StopCompleted ==
    /\ isStopped
    /\ catalog.stops >= 1
    /\ \A i \in 1 .. Len(kvstores) : kvstores[i].stops >= 1
    /\ cronThd = "joined"
    /\ sessions = {}

\* C7: once SHUTDOWN has set isShutdowned on a running server with a thread
\* blocked in waitStopComplete, stop() eventually runs to completion:
\* isStopped is true, the catalog and every shard have had stop() called,
\* the cron thread is joined and the session map is empty.
ShutdownCompletes ==
    (isShutdowned /\ isRunning /\ waitPc = "waiting") ~> StopCompleted

\* C8: destroyStore goes on past its checks only when the shard is paused
\* and (force or the shard is empty); otherwise it returns with the catalog,
\* the shards and their data unchanged, and, the shard's lock acquired, the
\* status is INTERNAL ("try to close an unempty store" for a non-empty
\* shard without force). Catalog and shards change only past the checks.
DestroyStoreGuard ==
    [][/\ (sop.pc = "idle" /\ sop'.kind = "destroy" /\ sop'.pc # "idle") =>
            LET i == sop'.store
                allowed == /\ kvstores[i + 1].paused
                           /\ (sop'.force \/ ~storeData[i])
            IN  /\ sop'.pc = "catalog" => allowed
                /\ ~allowed =>
                       /\ sop'.pc = "done"
                       /\ UNCHANGED <<catalogMeta, kvstores, storeData>>
                       /\ sop'.locked =>
                              sop'.ret \in
                                {"ERR_INTERNAL:try to close an unempty store",
                                 "ERR_INTERNAL:please pausestore first before destroystore"}
                       /\ (sop'.locked /\ ~sop'.force /\ storeData[i]) =>
                              sop'.ret =
                                "ERR_INTERNAL:try to close an unempty store"
       /\ (sop.kind = "destroy" /\ sop'.kind = "destroy"
             /\ <<catalogMeta, kvstores, storeData>>' #
                    <<catalogMeta, kvstores, storeData>>) =>
            sop.pc \in {"catalog", "destroy", "repl", "index"}]_vars

DestroyRejectedUnempty ==
    /\ sop.kind = "destroy"
    /\ sop.pc = "done"
    /\ ~sop.force
    /\ storeData[sop.store]
    /\ sop.ret = "ERR_INTERNAL:try to close an unempty store"
    /\ catalogMeta[sop.store] = "READ_WRITE"

\* C9: a shard whose last operation before a restart was a setStoreMode(s, M)
\* that returned OK is constructed with mode M by the startup after the
\* restart.
RoundTripStoreMode ==
    \A i \in StoreIds :
        (/\ expectMode[i] # "none"
         /\ expectMode[i][2] < restarts
         /\ i < Len(tmpStores)) =>
            tmpStores[i + 1].ctorMode = expectMode[i][1]

\* C10: on a running server, between store operations, each shard's mode in
\* memory equals the mode persisted in its StoreMainMeta.
ModeMatchesCatalog ==
    (isRunning /\ sop.pc = "idle") =>
        \A i \in 0 .. (Len(kvstores) - 1) : kvstores[i + 1].mode = catalogMeta[i]


\* C11: every pass of the cron loop overwrites, for each metric, exactly the
\* ring slot at idx with ops * 1000 / ms (0 when ms = 0) and advances idx by
\* one modulo 16; the published rate is the sum of the 16 slots divided by
\* 16; and once 16 consecutive passes have seen the counter grow at the
\* steady rate R, every slot holds R and getInstantaneousMetric returns R.
InstantaneousRate ==
    /\ [](cronLoop >= MaxUnsteadyTicks + STATS_METRIC_SAMPLES =>
            /\ \A j \in 0 .. (STATS_METRIC_SAMPLES - 1) :
                   instMetric["COMMAND"].samples[j] = LastSample("COMMAND")
            /\ getInstantaneousMetric("COMMAND") = LastSample("COMMAND"))
    /\ [][cronLoop' = cronLoop + 1 =>
            LET old == instMetric["COMMAND"]
                new == instMetric'["COMMAND"]
                ms == now' - old.lastSampleTime
                ops == matrix.req - old.lastSampleCount
            IN  /\ new.samples[old.idx] =
                       IF ms = 0 THEN 0 ELSE (ops * 1000) \div ms
                /\ \A j \in 0 .. (STATS_METRIC_SAMPLES - 1) :
                       j # old.idx => new.samples[j] = old.samples[j]
                /\ new.idx = (old.idx + 1) % STATS_METRIC_SAMPLES
                /\ new.lastSampleCount = matrix.req
                /\ new.lastSampleTime = now']_vars

SteadyRateTwenty ==
    /\ cronLoop >= MaxUnsteadyTicks + STATS_METRIC_SAMPLES
    /\ LastSample("COMMAND") = 20
    /\ getInstantaneousMetric("COMMAND") = 20

\* C12: the ids of the records in the slow log are 0, 1, 2, ... in write
\* order, without duplicate or gap, and whenever no call is inside its
\* critical section _slowlogId equals the number of records written.
SlowlogIdsContiguous ==
    /\ \A k \in 1 .. Len(slowLogFile) : slowLogFile[k] = k - 1
    /\ (\A t \in PushThreads : push[t].pc = "idle") =>
           slowlogId = Len(slowLogFile)

\* C13: startup does not return OK when the slow-log file could not be
\* opened: the step at which startup returns OK leaves the slow log open.
SlowlogOpenFailureFailsStartup ==
    [][(startRet # "OK" /\ startRet' = "OK") => slowLog' = "open"]_vars

HijackCmds == {"fullsync", "incrsync"}

SyncCounters == {"syncFull", "syncPartialOk", "syncPartialErr"}

\* C14: the step in which a fullsync or incrsync command is dispatched moves
\* the session's connection from the session to the replication manager,
\* adds 1 to exactly one sync counter (syncFull for fullsync; for incrsync
\* syncPartialOk when registerIncrSync returned true, else syncPartialErr),
\* returns false, sets no response and does not run the command; and the
\* sync counters always add up to the number of connections moved.
HijackEffects ==
    /\ [](SumSeq([i \in 1 .. MaxSessions |->
                    IF sess[i].conn = "repl" THEN 1 ELSE 0])
             = serverStat.syncFull + serverStat.syncPartialOk
                   + serverStat.syncPartialErr)
    /\ [][\A s \in SessIds :
            (req[s].pc = "dispatch" /\ req'[s].pc = "done"
               /\ req[s].cmd \in HijackCmds) =>
              LET bumped ==
                    IF req[s].cmd = "fullsync" THEN "syncFull"
                    ELSE IF req'[s].regOk = TRUE THEN "syncPartialOk"
                    ELSE "syncPartialErr"
              IN  /\ sess[s].conn = "session"
                  /\ sess'[s].conn = "repl"
                  /\ sess'[s].resp = sess[s].resp
                  /\ req'[s].ret = FALSE
                  /\ ~req'[s].respSet
                  /\ ~req'[s].ran
                  /\ matrix' = matrix
                  /\ req[s].cmd = "incrsync" => req'[s].regOk \in BOOLEAN
                  /\ \A k \in SyncCounters :
                         serverStat'[k] =
                             serverStat[k] + (IF k = bumped THEN 1 ELSE 0)]_vars

IncrSyncRefused ==
    \E s \in SessIds :
        /\ req[s].pc = "done"
        /\ req[s].cmd = "incrsync"
        /\ req[s].precheckOk
        /\ req[s].regOk = FALSE
        /\ sess[s].conn = "repl"
        /\ serverStat.syncPartialErr = 1
        /\ serverStat.syncPartialOk = 0

\* C15: a registered session that cancelSession has cancelled is eventually
\* absent from the session map, also when stop() runs between the cancel
\* and the session's endSession.
CancelledSessionLeaves ==
    \A s \in SessIds :
        (sess[s].cancelled /\ s \in sessions) ~> (s \notin sessions)

IsMonitorLine(l) == l[1] = "mon"

StopQuiescesInOrder ==
    [][/\ (\E i \in 1 .. Len(executorList) :
             /\ i <= Len(executorList')
             /\ executorList[i] = "started"
             /\ executorList'[i] = "stopped") =>
            network # "running" /\ teardown.network > 0
       /\ (replMgr = "started" /\ replMgr' = "stopped") =>
            "started" \notin Range(executorList) /\ teardown.executors > 0
       /\ (indexMgr = "started" /\ indexMgr' = "stopped") =>
            /\ "started" \notin Range(executorList)
            /\ replMgr # "started"
       /\ teardown'.clear > teardown.clear =>
            /\ replMgr # "started" /\ indexMgr # "started"
            /\ teardown.repl > 0 /\ teardown.index > 0
       /\ (network # "null" /\ network' = "null" /\ restarts' = restarts) =>
            /\ network = "stopped"
            /\ "started" \notin Range(executorList)
            /\ replMgr # "started" /\ indexMgr # "started"
            /\ teardown.clear > 0 /\ sessions = {}
       /\ catalog'.stops > catalog.stops =>
            /\ teardown.clear > 0
            /\ \E t \in StopThreads : stopPc[t] = "catalog"
            /\ isShutdowned \/ network = "null"
       /\ (\E i \in 1 .. Len(kvstores) :
             /\ i <= Len(kvstores')
             /\ kvstores'[i].stops > kvstores[i].stops) =>
            catalog.stops > 0 /\ teardown.clear > 0
       /\ (~isStopped /\ isStopped' /\ restarts' = restarts) =>
            /\ cronThd = "joined"
            /\ slowLog = "closed"
            /\ teardown.join > 0 /\ teardown.slowlog > 0
            /\ teardown.stores > 0]_vars

StopRanToTheEnd ==
    /\ isStopped
    /\ teardown.stopped = 1
    /\ network = "null"
    /\ cronThd = "joined"
    /\ slowLog = "closed"
    /\ catalog.stops = 1
    /\ Len(kvstores) = MaxStores
    /\ \A i \in 1 .. Len(kvstores) : kvstores[i].stops = 1

HandlesDropped ==
    /\ network = "null"
    /\ \A i \in 1 .. Len(executorList) : executorList[i] = "null"
    /\ replMgr = "null"
    /\ indexMgr = "null"
    /\ pessimisticMgr = "null"
    /\ mgLockMgr = "null"
    /\ segmentMgr = "null"

\* The handles startup() installed; the index manager is installed unless
\* the configuration is noexpire.
HandlesInstalled ==
    /\ network # "null"
    /\ executorList # <<>>
    /\ \A i \in 1 .. Len(executorList) : executorList[i] # "null"
    /\ replMgr # "null"
    /\ ~cfg.noexpire => indexMgr # "null"
    /\ pessimisticMgr # "null"
    /\ mgLockMgr # "null"
    /\ segmentMgr # "null"

\* C18: the reset step of stop() drops the handles of the network, the
\* worker pools, the replication and index managers, the two lock managers
\* and the segment router exactly when isShutdowned is false as the step is
\* reached, and leaves every one of them as it was otherwise; with
\* isShutdowned set, the handles are installed when stop() has returned.
HandlesDroppedUnlessShutdown ==
    /\ []((/\ isShutdowned
           /\ \E t \in StopThreads : stopPc[t] = "done" /\ stopCalls[t] > 0
                                     /\ isStopped) => HandlesInstalled)
    /\ [][\A t \in StopThreads :
            (stopPc[t] = "reset" /\ stopPc'[t] # "reset") =>
               IF isShutdowned
               THEN subsysVars' = subsysVars
               ELSE HandlesDropped']_vars

ShutdownStopKeptHandles ==
    /\ isShutdowned
    /\ stopPc["waiter"] = "done"
    /\ isStopped
    /\ teardown.stopped = 1
    /\ network = "stopped"
    /\ HandlesInstalled

AddSessionContract ==
    /\ [](\A id \in sessions :
            sess[id].started /\ sess[id].addRet = "true")
    /\ [][restarts' = restarts =>
          \A id \in SessIds :
            /\ sess'[id].addRet # sess[id].addRet =>
                 IF isRunning
                 THEN /\ id \notin sessions
                      /\ ~sess[id].started /\ sess'[id].started
                      /\ sessions' = sessions \cup {id}
                      /\ sess'[id].addRet = "true"
                 ELSE /\ sess'[id].addRet = "false"
                      /\ ~sess'[id].started
                      /\ sessions' = sessions
            /\ (~sess[id].started /\ sess'[id].started) =>
                 isRunning /\ sess'[id].addRet = "true"
            /\ (id \in sessions /\ id \in sessions') =>
                 /\ sess'[id].addRet = sess[id].addRet
                 /\ sess'[id].started
            /\ (id \notin sessions /\ id \in sessions') =>
                 isRunning /\ sess'[id].started]_vars

AddSessionRefusedThenAccepted ==
    /\ sess[1].addRet = "false"
    /\ ~sess[1].started
    /\ sess[2].addRet = "true"
    /\ sessions = {2}
    /\ ~isRunning

\* C21: the monitor list never holds a session id twice; AddMonitor(id)
\* applied to the list AddMonitor(id) returned returns it unchanged, and
\* AddMonitor of an id that is not in the session map returns the list
\* unchanged.
AddMonitorIdempotent ==
    /\ \A i, j \in 1 .. Len(monitors) :
         monitors[i] = monitors[j] => i = j
    /\ \A id \in SessIds :
         /\ AddMonitorTo(AddMonitor(id), id) = AddMonitor(id)
         /\ id \notin sessions => AddMonitor(id) = monitors
         /\ (id \in sessions /\ id \notin Range(monitors)) =>
              AddMonitor(id) = Append(monitors, id)

TwoMonitorsListed ==
    /\ monitors = <<2, 1>>
    /\ sessions = {1, 2}
    /\ sess[1].isMonitor /\ sess[2].isMonitor
    /\ AddMonitor(1) = monitors

\* C22, as stated: after a call of endSession(id) has returned, id is in
\* neither the session map nor the monitor list.
EndSessionAlwaysRemoves ==
    \A id \in SessIds :
        sess[id].endRet \in {"removed", "ignored"} =>
            id \notin sessions /\ id \notin Range(monitors)

\* C22, amended: on a running server endSession(id) takes id out of the
\* monitor list and the session map in one step, so that on a running server
\* every listed monitor is in the map, and a call for an id that is not in
\* the map ends the process; on a server that is not running the call
\* returns with the map and the list as they were.
EndSessionRemovesWhenRunning ==
    /\ [](\A id \in SessIds :
            /\ sess[id].endRet = "removed" =>
                 id \notin sessions /\ id \notin Range(monitors)
            /\ sess[id].endRet = "fatal" => crashed
            /\ (isRunning /\ id \in Range(monitors)) => id \in sessions)
    /\ [][\A id \in SessIds :
            sess'[id].endRet # sess[id].endRet =>
              IF ~isRunning
              THEN /\ sess'[id].endRet = "ignored"
                   /\ sessions' = sessions /\ monitors' = monitors
                   /\ crashed' = crashed
              ELSE IF id \notin sessions
              THEN /\ sess'[id].endRet = "fatal"
                   /\ crashed'
                   /\ sessions' = sessions /\ monitors' = monitors
              ELSE /\ sess'[id].endRet = "removed"
                   /\ sessions' = sessions \ {id}
                   /\ id \notin Range(monitors')
                   /\ \A m \in Range(monitors) \ {id} : m \in Range(monitors')
                   /\ crashed' = crashed]_vars

MonitorEndedOthersStay ==
    /\ sess[1].endRet = "removed"
    /\ sess[1].isMonitor
    /\ sessions = {2}
    /\ monitors = <<2>>
    /\ isRunning

\* C23: every pass of the cron loop samples the three rate metrics, the
\* snapshot is replaced only on passes with cronLoop % 10 = 0, and what such
\* a pass logs with the full-time matrix collect on is the difference
\* between the live matrices and their values at the previous 1 s pass.
CronLogsDeltaOfLastSecond ==
    [][cronLoop' = cronLoop + 1 =>
         /\ \A m \in Metrics :
              instMetric'[m].idx = (instMetric[m].idx + 1) % STATS_METRIC_SAMPLES
         /\ oldMatrix' # oldMatrix => cronLoop % CronHz = 0 /\ ftmcEnabled
         /\ (cronLoop % CronHz = 0 /\ ftmcEnabled) =>
              /\ oldMatrix' = matrix
              /\ ftmcLog' = <<MatrixSub(matrix, secMatrix)>>]_vars

\* C24, as stated: only a pass of the cron loop changes the rate samples,
\* idx, lastSampleTime or lastSampleCount.
CronSoleWriterOfSamples ==
    [][instMetric' # instMetric => cronLoop' = cronLoop + 1]_vars

\* C24, amended: the rate samples, idx, lastSampleTime and lastSampleCount
\* are changed only by a pass of the cron loop, which adds one sample to each
\* metric, and by ServerStat::reset called from resetServerStat, which
\* zeroes all of them.
SamplesWrittenByCronOrReset ==
    [][(instMetric' # instMetric /\ restarts' = restarts) =>
         \/ /\ cronLoop' = cronLoop + 1
            /\ statReset' = statReset
            /\ \A m \in Metrics :
                 instMetric'[m].idx =
                     (instMetric[m].idx + 1) % STATS_METRIC_SAMPLES
         \/ /\ statReset.pc = "instMetric"
            /\ statReset'.pc = "idle"
            /\ cronLoop' = cronLoop
            /\ instMetric' = [m \in Metrics |-> ZeroMetric]]_vars

SamplesZeroedByReset ==
    /\ statReset = [pc |-> "idle", n |-> 1]
    /\ cronLoop = 2
    /\ instMetric = [m \in Metrics |-> ZeroMetric]
    /\ matrix.req = 1

\* C25: when a call of stop() returns on a server whose startup() failed,
\* the subsystems the startup had installed are stopped and released: no
\* worker pool is started, the handles are dropped, the catalog and every
\* shard are stopped.
StopReleasesFailedStartup ==
    [][\A t \in StopThreads :
         (/\ startPc = "done"
          /\ startRet # "OK"
          /\ stopPc[t] # "done"
          /\ stopPc'[t] = "done") =>
            /\ "started" \notin Range(executorList')
            /\ HandlesDropped'
            /\ catalog'.stops > 0
            /\ \A i \in 1 .. Len(kvstores') : kvstores'[i].stops > 0]_vars

\* C26: in the step in which waitStopComplete() returns on a server that
\* had been started, the stop has completed: isStopped is true.
WaitReturnsAfterStopCompleted ==
    [][(waitPc # "returned" /\ waitPc' = "returned" /\ startRet = "OK") =>
          isStopped']_vars

\* C27: stop() and destroyStore() reach their call of the index manager
\* only with an index manager installed.
IndexMgrInvokedOnlyWhenInstalled ==
    /\ \A t \in StopThreads : stopPc[t] = "index" => indexMgr # "null"
    /\ (sop.kind = "destroy" /\ sop.pc = "index") => indexMgr # "null"

\* The reading serverCron passes to trackInstantaneousMetric for a metric.
CurrentReading(m) ==
    CASE m = "COMMAND" -> matrix.req
      [] m = "NET_INPUT" -> serverStat.netInputBytes
      [] m = "NET_OUTPUT" -> serverStat.netOutputBytes

\* C28: in every pass of the cron loop the reading of each metric is at
\* least the stored lastSampleCount, and the sample stored is the exact
\* difference scaled by the elapsed time, whatever the interleaving of
\* resetServerStat and of the counter increments.
ReadingNeverBelowLastSample ==
    [][cronLoop' = cronLoop + 1 =>
         \A m \in Metrics :
            /\ CurrentReading(m) >= instMetric[m].lastSampleCount
            /\ instMetric'[m].lastSampleCount = CurrentReading(m)
            /\ instMetric'[m].samples[instMetric[m].idx] <=
                  (MaxStatCount * 1000) \div CronIntervalMs]_vars

SampledAfterReset ==
    /\ statReset = [pc |-> "idle", n |-> 1]
    /\ cronLoop = 3
    /\ instMetric["COMMAND"].idx = 1
    /\ instMetric["COMMAND"].lastSampleCount = 1
    /\ instMetric["NET_INPUT"].lastSampleCount = 2

====
